---- MODULE Spec2Model ----
(***************************************************************************)
(* A model of the tcx crate: the streaming reader of src/src/read.rs, the  *)
(* scalar conversions and defaults of src/src/types.rs and the entry point *)
(* of src/src/lib.rs.                                                      *)
(*                                                                         *)
(* A text (element text or attribute value) is a sequence of one-character *)
(* strings, so that the conversions are computed character by character.   *)
(***************************************************************************)
EXTENDS Integers, Sequences, FiniteSets, TLC

VARIABLES
    events,   \* the events the tokenizer has returned so far, in order
    tok,      \* the tokenizer: open elements, what it has produced, end of input
    stack,    \* the active readers, innermost last: one frame per invocation
    result,   \* the outcome of read: Running, Ok (with the tree) or Err
    last      \* what the last step did (the reader, the events it pulled, a return)

vars == <<events, tok, stack, result, last>>

(***************************************************************************)
(* Literals                                                                *)
(***************************************************************************)
L_Running == <<"R","u","n","n","i","n","g">>
L_Biking == <<"B","i","k","i","n","g">>
L_Other == <<"O","t","h","e","r">>
L_Active == <<"A","c","t","i","v","e">>
L_Resting == <<"R","e","s","t","i","n","g">>
L_Manual == <<"M","a","n","u","a","l">>
L_Distance == <<"D","i","s","t","a","n","c","e">>
L_Location == <<"L","o","c","a","t","i","o","n">>
L_Time == <<"T","i","m","e">>
L_HeartRate == <<"H","e","a","r","t","R","a","t","e">>
L_Present == <<"P","r","e","s","e","n","t">>
L_Absent == <<"A","b","s","e","n","t">>
L_Internal == <<"I","n","t","e","r","n","a","l">>
L_Alpha == <<"A","l","p","h","a">>
L_Beta == <<"B","e","t","a">>
L_Release == <<"R","e","l","e","a","s","e">>
L_Workout == <<"W","o","r","k","o","u","t">>
L_Course == <<"C","o","u","r","s","e">>
L_Footpod == <<"F","o","o","t","p","o","d">>
L_Bike == <<"B","i","k","e">>
L_true == <<"t","r","u","e">>
L_false == <<"f","a","l","s","e">>
L_inf == <<"i","n","f">>
L_infinity == <<"i","n","f","i","n","i","t","y">>
L_nan == <<"n","a","n">>
L_Application_t == <<"A","p","p","l","i","c","a","t","i","o","n","_","t">>
L_Device_t == <<"D","e","v","i","c","e","_","t">>

(***************************************************************************)
(* Option and Result values                                                *)
(***************************************************************************)
None == <<>>
Some(x) == <<x>>
IsSome(o) == o # <<>>
Unwrap(o) == o[1]

Ok(v) == [ok |-> TRUE, v |-> v, err |-> "", enum |-> "", text |-> <<>>]
Err(kind) == [ok |-> FALSE, v |-> 0, err |-> kind, enum |-> "", text |-> <<>>]
EnumErr(enum, s) == [ok |-> FALSE, v |-> 0, err |-> "UnknownEnumValue", enum |-> enum, text |-> s]

(***************************************************************************)
(* Characters                                                              *)
(***************************************************************************)
DigitChars == <<"0","1","2","3","4","5","6","7","8","9">>
Digit == {DigitChars[i] : i \in 1..10}
DigitVal(c) == (CHOOSE i \in 1..10 : DigitChars[i] = c) - 1

UpperChars == <<"A","B","C","D","E","F","G","H","I","J","K","L","M",
                "N","O","P","Q","R","S","T","U","V","W","X","Y","Z">>
LowerChars == <<"a","b","c","d","e","f","g","h","i","j","k","l","m",
                "n","o","p","q","r","s","t","u","v","w","x","y","z">>
ToLower(c) == IF \E i \in 1..26 : UpperChars[i] = c
              THEN LowerChars[CHOOSE i \in 1..26 : UpperChars[i] = c]
              ELSE c
LowerText(t) == [i \in 1..Len(t) |-> ToLower(t[i])]
AllDigits(t) == \A i \in 1..Len(t) : t[i] \in Digit
IndexOf(t, cs) == IF \E i \in 1..Len(t) : t[i] \in cs
                  THEN CHOOSE i \in 1..Len(t) : t[i] \in cs /\ \A j \in 1..(i-1) : t[j] \notin cs
                  ELSE 0

RECURSIVE NatOf(_, _)
\* the number a digit sequence denotes, most significant digit first
NatOf(ds, acc) == IF ds = <<>> THEN acc ELSE NatOf(Tail(ds), acc * 10 + DigitVal(Head(ds)))

(***************************************************************************)
(* Integer conversion: <uN as FromStr>::from_str                           *)
(***************************************************************************)
Limb == 2^16     \* numbers are kept in 16-bit limbs: <<hi, lo>> is hi * 2^16 + lo

RECURSIVE AccDigits(_, _, _, _)
\* digit by digit, checked against the width: <<hi, lo>>, or <<-1, 0>> for an
\* invalid digit and <<-2, 0>> for an overflow of the width
AccDigits(ds, hi, lo, bits) ==
    IF ds = <<>> THEN <<hi, lo>>
    ELSE IF Head(ds) \notin Digit THEN <<-1, 0>>
    ELSE LET l  == lo * 10 + DigitVal(Head(ds))
             h  == hi * 10 + (l \div Limb)
             over == IF bits > 16 THEN h >= 2^(bits - 16)
                     ELSE h > 0 \/ (l % Limb) >= 2^bits
         IN  IF over THEN <<-2, 0>> ELSE AccDigits(Tail(ds), h, l % Limb, bits)

RECURSIVE AccDigits_wrapping(_, _, _, _)
\* digit by digit with wrapping arithmetic: the bits above the width are lost
AccDigits_wrapping(ds, hi, lo, bits) ==
    IF ds = <<>> THEN <<hi, lo>>
    ELSE IF Head(ds) \notin Digit THEN <<-1, 0>>
    ELSE LET l == lo * 10 + DigitVal(Head(ds))
             h == hi * 10 + (l \div Limb)
         IN  IF bits > 16
             THEN AccDigits_wrapping(Tail(ds), h % 2^(bits - 16), l % Limb, bits)
             ELSE AccDigits_wrapping(Tail(ds), 0, l % 2^bits, bits)

\* a conversion that wraps where the number does not fit the width
uint_from_str_wrapping(t, bits) ==
    IF t = <<>> THEN Err("ParseIntError")
    ELSE IF Len(t) = 1 /\ t[1] \in {"+", "-"} THEN Err("ParseIntError")
    ELSE LET ds == IF t[1] = "+" THEN Tail(t) ELSE t
             n  == AccDigits_wrapping(ds, 0, 0, bits)
         IN  IF n[1] < 0 THEN Err("ParseIntError")
             ELSE IF bits > 16 THEN Ok(n) ELSE Ok(n[2])

\* a value of at most 16 bits is its number, a wider one its two limbs
uint_from_str(t, bits) ==
    IF t = <<>> THEN Err("ParseIntError")
    ELSE IF Len(t) = 1 /\ t[1] \in {"+", "-"} THEN Err("ParseIntError")
    ELSE LET ds == IF t[1] = "+" THEN Tail(t) ELSE t
             n  == AccDigits(ds, 0, 0, bits)
         IN  IF n[1] < 0 THEN Err("ParseIntError")
             ELSE IF bits > 16 THEN Ok(n) ELSE Ok(n[2])

(***************************************************************************)
(* Float conversion: <f64 as FromStr>::from_str.  A finite value is kept   *)
(* as sign, decimal mantissa and decimal exponent, normalised; binary      *)
(* rounding is not modelled.                                               *)
(***************************************************************************)
RECURSIVE NormFloat(_, _, _)
NormFloat(neg, m, e) ==
    IF m = 0 THEN [cls |-> "num", neg |-> FALSE, m |-> 0, e |-> 0]
    ELSE IF m % 10 = 0 THEN NormFloat(neg, m \div 10, e + 1)
    ELSE [cls |-> "num", neg |-> neg, m |-> m, e |-> e]

F64Zero == NormFloat(FALSE, 0, 0)

\* Number ::= ( Digit+ | Digit+ '.' Digit* | Digit* '.' Digit+ ) Exp?
f64_number(neg, t) ==
    LET ePos  == IndexOf(t, {"e"})
        mant  == IF ePos = 0 THEN t ELSE SubSeq(t, 1, ePos - 1)
        expo  == IF ePos = 0 THEN <<>> ELSE SubSeq(t, ePos + 1, Len(t))
        eNeg  == expo # <<>> /\ expo[1] = "-"
        eDs   == IF expo # <<>> /\ expo[1] \in {"+", "-"} THEN Tail(expo) ELSE expo
        dot   == IndexOf(mant, {"."})
        ip    == IF dot = 0 THEN mant ELSE SubSeq(mant, 1, dot - 1)
        fp    == IF dot = 0 THEN <<>> ELSE SubSeq(mant, dot + 1, Len(mant))
        expOk == ePos = 0 \/ (eDs # <<>> /\ AllDigits(eDs))
        manOk == AllDigits(ip) /\ AllDigits(fp) /\ Len(ip) + Len(fp) > 0
        ev    == IF ePos = 0 THEN 0 ELSE IF eNeg THEN 0 - NatOf(eDs, 0) ELSE NatOf(eDs, 0)
    IN  IF expOk /\ manOk
        THEN Ok(NormFloat(neg, NatOf(ip \o fp, 0), ev - Len(fp)))
        ELSE Err("ParseFloatError")

f64_from_str(t) ==
    LET signed == t # <<>> /\ t[1] \in {"+", "-"}
        neg    == t # <<>> /\ t[1] = "-"
        body   == LowerText(IF signed THEN Tail(t) ELSE t)
    IN  IF body \in {L_inf, L_infinity}
        THEN Ok([cls |-> "inf", neg |-> neg, m |-> 0, e |-> 0])
        ELSE IF body = L_nan
        THEN Ok([cls |-> "nan", neg |-> neg, m |-> 0, e |-> 0])
        ELSE f64_number(neg, body)

(***************************************************************************)
(* bool::from_str                                                          *)
(***************************************************************************)
bool_from_str(t) ==
    IF t = L_true THEN Ok(TRUE)
    ELSE IF t = L_false THEN Ok(FALSE)
    ELSE Err("ParseBoolError")

(***************************************************************************)
(* chrono::DateTime::parse_from_rfc3339.  A timestamp is kept as its local *)
(* fields, its nanoseconds and its offset from UTC in seconds.             *)
(***************************************************************************)
IsLeap(y) == (y % 4 = 0 /\ y % 100 # 0) \/ y % 400 = 0
DaysIn(y, mo) ==
    IF mo \in {4, 6, 9, 11} THEN 30
    ELSE IF mo = 2 THEN (IF IsLeap(y) THEN 29 ELSE 28)
    ELSE 31

\* the digits of a fraction of a second as nanoseconds: nine digits count
Nanos(ds) == LET d9 == IF Len(ds) >= 9 THEN SubSeq(ds, 1, 9)
                       ELSE ds \o [i \in 1..(9 - Len(ds)) |-> "0"]
             IN  NatOf(d9, 0)

\* an offset that is read and then dropped: the timestamp is kept in UTC
rfc3339_offset_utc(z) ==
    IF z \in {<<"Z">>, <<"z">>} THEN Some(0)
    ELSE IF Len(z) = 6 /\ z[1] \in {"+", "-"} /\ z[4] = ":"
            /\ AllDigits(SubSeq(z, 2, 3)) /\ AllDigits(SubSeq(z, 5, 6))
    THEN IF NatOf(SubSeq(z, 5, 6), 0) > 59 \/ NatOf(SubSeq(z, 2, 3), 0) > 23 THEN None
         ELSE Some(0)
    ELSE None

\* "Z", "z" or (+|-)hh:mm, and nothing after it: the offset in seconds, or none
rfc3339_offset(z) ==
    IF z \in {<<"Z">>, <<"z">>} THEN Some(0)
    ELSE IF Len(z) = 6 /\ z[1] \in {"+", "-"} /\ z[4] = ":"
            /\ AllDigits(SubSeq(z, 2, 3)) /\ AllDigits(SubSeq(z, 5, 6))
    THEN LET hh == NatOf(SubSeq(z, 2, 3), 0)
             mm == NatOf(SubSeq(z, 5, 6), 0)
             secs == hh * 3600 + mm * 60
         IN  IF mm > 59 \/ secs >= 86400 THEN None
             ELSE Some(IF z[1] = "-" THEN 0 - secs ELSE secs)
    ELSE None

parse_from_rfc3339(t) ==
    IF Len(t) < 20 THEN Err("ParseDateError")
    ELSE
    LET shape == /\ AllDigits(SubSeq(t, 1, 4)) /\ t[5] = "-"
                 /\ AllDigits(SubSeq(t, 6, 7)) /\ t[8] = "-"
                 /\ AllDigits(SubSeq(t, 9, 10)) /\ t[11] \in {"T", "t"}
                 /\ AllDigits(SubSeq(t, 12, 13)) /\ t[14] = ":"
                 /\ AllDigits(SubSeq(t, 15, 16)) /\ t[17] = ":"
                 /\ AllDigits(SubSeq(t, 18, 19))
        rest  == SubSeq(t, 20, Len(t))
        zPos  == IF rest[1] = "." THEN IndexOf(rest, {"Z", "z", "+", "-"}) ELSE 1
        frac  == IF rest[1] = "." /\ zPos > 0 THEN SubSeq(rest, 2, zPos - 1) ELSE <<>>
        fracOk == rest[1] # "." \/ (zPos > 2 /\ AllDigits(frac))
        off   == IF zPos = 0 THEN None ELSE rfc3339_offset(SubSeq(rest, zPos, Len(rest)))
        y  == NatOf(SubSeq(t, 1, 4), 0)
        mo == NatOf(SubSeq(t, 6, 7), 0)
        d  == NatOf(SubSeq(t, 9, 10), 0)
        h  == NatOf(SubSeq(t, 12, 13), 0)
        mi == NatOf(SubSeq(t, 15, 16), 0)
        s  == NatOf(SubSeq(t, 18, 19), 0)
    IN  IF ~shape \/ ~fracOk \/ ~IsSome(off) THEN Err("ParseDateError")
        ELSE IF mo \notin 1..12 \/ d \notin 1..DaysIn(y, mo)
                \/ h > 23 \/ mi > 59 \/ s > 60 THEN Err("ParseDateError")
        ELSE Ok([y |-> y, mo |-> mo, d |-> d, h |-> h, mi |-> mi, s |-> s,
                 ns |-> Nanos(frac), off |-> Unwrap(off)])

(***************************************************************************)
(* BytesText::unescape_and_decode: the five named entities are replaced,   *)
(* any other "&" is an escape error, which read reports as XmlReadError.   *)
(***************************************************************************)
EntityChar(name) ==
    IF name = <<"l","t">> THEN "<"
    ELSE IF name = <<"g","t">> THEN ">"
    ELSE IF name = <<"a","m","p">> THEN "&"
    ELSE IF name = <<"a","p","o","s">> THEN "'"
    ELSE IF name = <<"q","u","o","t">> THEN "\""
    ELSE ""

RECURSIVE unescape_and_decode(_)
unescape_and_decode(t) ==
    IF t = <<>> THEN Ok(<<>>)
    ELSE IF Head(t) # "&"
    THEN LET r == unescape_and_decode(Tail(t))
         IN  IF r.ok THEN Ok(<<Head(t)>> \o r.v) ELSE r
    ELSE LET semi == IndexOf(t, {";"})
             c    == IF semi = 0 THEN "" ELSE EntityChar(SubSeq(t, 2, semi - 1))
         IN  IF c = "" THEN Err("XmlReadError")
             ELSE LET r == unescape_and_decode(SubSeq(t, semi + 1, Len(t)))
                  IN  IF r.ok THEN Ok(<<c>> \o r.v) ELSE r

(***************************************************************************)
(* The closed enumerations of types.rs: the variants each declares, and    *)
(* its FromStr.  A variant is an atom, a text a sequence of characters.     *)
(***************************************************************************)
Enums == {"Sport", "Intensity", "TriggerMethod", "SensorState", "BuildType",
          "TrainingType", "CadenceSensorType"}

Variants(enum) ==
    CASE enum = "Sport" -> {"Running", "Biking", "Other"}
      [] enum = "Intensity" -> {"Active", "Resting"}
      [] enum = "TriggerMethod" -> {"Manual", "Distance", "Location", "Time", "HeartRate"}
      [] enum = "SensorState" -> {"Present", "Absent"}
      [] enum = "BuildType" -> {"Internal", "Alpha", "Beta", "Release"}
      [] enum = "TrainingType" -> {"Workout", "Course"}
      [] enum = "CadenceSensorType" -> {"Footpod", "Bike"}

\* the name of a variant as the enum declaration spells it, as a text
Literal(variant) ==
    CASE variant = "Running" -> L_Running [] variant = "Biking" -> L_Biking
      [] variant = "Other" -> L_Other [] variant = "Active" -> L_Active
      [] variant = "Resting" -> L_Resting [] variant = "Manual" -> L_Manual
      [] variant = "Distance" -> L_Distance [] variant = "Location" -> L_Location
      [] variant = "Time" -> L_Time [] variant = "HeartRate" -> L_HeartRate
      [] variant = "Present" -> L_Present [] variant = "Absent" -> L_Absent
      [] variant = "Internal" -> L_Internal [] variant = "Alpha" -> L_Alpha
      [] variant = "Beta" -> L_Beta [] variant = "Release" -> L_Release
      [] variant = "Workout" -> L_Workout [] variant = "Course" -> L_Course
      [] variant = "Footpod" -> L_Footpod [] variant = "Bike" -> L_Bike

BuildType_from_str(s) ==
    IF s = L_Internal THEN Ok("Internal")
    ELSE IF s = L_Alpha THEN Ok("Alpha")
    ELSE IF s = L_Beta THEN Ok("Beta")
    ELSE IF s = L_Release THEN Ok("Release")
    ELSE EnumErr("BuildType", s)

TrainingType_from_str(s) ==
    IF s = L_Workout THEN Ok("Workout")
    ELSE IF s = L_Course THEN Ok("Course")
    ELSE EnumErr("TrainingType", s)

SensorState_from_str(s) ==
    IF s = L_Present THEN Ok("Present")
    ELSE IF s = L_Absent THEN Ok("Absent")
    ELSE EnumErr("SensorState", s)

Intensity_from_str(s) ==
    IF s = L_Active THEN Ok("Active")
    ELSE IF s = L_Resting THEN Ok("Resting")
    ELSE EnumErr("Intensity", s)

TriggerMethod_from_str(s) ==
    IF s = L_Manual THEN Ok("Manual")
    ELSE IF s = L_Distance THEN Ok("Distance")
    ELSE IF s = L_Location THEN Ok("Location")
    ELSE IF s = L_Time THEN Ok("Time")
    ELSE IF s = L_HeartRate THEN Ok("HeartRate")
    ELSE EnumErr("TriggerMethod", s)

\* a parser of Sport that does not look at the case of the letters
Sport_from_str_any_case(s) ==
    IF LowerText(s) = LowerText(L_Running) THEN Ok("Running")
    ELSE IF LowerText(s) = LowerText(L_Biking) THEN Ok("Biking")
    ELSE IF LowerText(s) = LowerText(L_Other) THEN Ok("Other")
    ELSE EnumErr("Sport", s)

Sport_from_str(s) ==
    IF s = L_Running THEN Ok("Running")
    ELSE IF s = L_Biking THEN Ok("Biking")
    ELSE IF s = L_Other THEN Ok("Other")
    ELSE EnumErr("Sport", s)

CadenceSensorType_from_str(s) ==
    IF s = L_Footpod THEN Ok("Footpod")
    ELSE IF s = L_Bike THEN Ok("Bike")
    ELSE EnumErr("CadenceSensorType", s)

enum_from_str(enum, s) ==
    CASE enum = "Sport" -> Sport_from_str(s)
      [] enum = "Intensity" -> Intensity_from_str(s)
      [] enum = "TriggerMethod" -> TriggerMethod_from_str(s)
      [] enum = "SensorState" -> SensorState_from_str(s)
      [] enum = "BuildType" -> BuildType_from_str(s)
      [] enum = "TrainingType" -> TrainingType_from_str(s)
      [] enum = "CadenceSensorType" -> CadenceSensorType_from_str(s)

\* <$ft>::from_str of the text macros, by the type the call site names
from_str(ty, s) ==
    CASE ty = "u8" -> uint_from_str(s, 8)
      [] ty = "u16" -> uint_from_str(s, 16)
      [] ty = "u32" -> uint_from_str(s, 32)
      [] ty = "f64" -> f64_from_str(s)
      [] ty = "bool" -> bool_from_str(s)
      [] ty = "date" -> parse_from_rfc3339(s)
      [] ty = "String" -> Ok(s)
      [] OTHER -> enum_from_str(ty, s)

(***************************************************************************)
(* The domain model of types.rs: the value each reader starts from.        *)
(***************************************************************************)
\* FixedOffset::east(10800).ymd(1987, 08, 21).and_hms(14, 0, 0)
DateTime_default ==
    [y |-> 1987, mo |-> 8, d |-> 21, h |-> 14, mi |-> 0, s |-> 0, ns |-> 0, off |-> 10800]

Version_default ==
    [version_major |-> 0, version_minor |-> 0, build_major |-> None, build_minor |-> None]

Build_default ==
    [version |-> Version_default, build_type |-> None, time |-> None, builder |-> None]

Application_default ==
    [name |-> <<>>, build |-> Build_default, lang_id |-> <<>>, part_number |-> <<>>]

Device_default ==
    [name |-> <<>>, unit_id |-> <<0, 0>>, product_id |-> 0, version |-> Version_default]

\* a database that starts with an empty activity list
TrainingCenterDatabase_new_listed ==
    [folders |-> None, activity_list |-> Some([activities |-> <<>>, multi_sport_sessions |-> <<>>]),
     workout_list |-> None, course_list |-> None, author |-> None]

TrainingCenterDatabase_new ==
    [folders |-> None, activity_list |-> None, workout_list |-> None,
     course_list |-> None, author |-> None]

ActivityList_default == [activities |-> <<>>, multi_sport_sessions |-> <<>>]

Activity_default ==
    [id |-> DateTime_default, laps |-> <<>>, notes |-> None, training |-> None,
     creator |-> None, sport |-> "Running"]

Training_default == [quick_workout_results |-> None, plan |-> None, virtual_partner |-> FALSE]

Plan_default == [name |-> None, training_type |-> "Workout", interval_workout |-> FALSE]

QuickWorkout_default == [total_time_seconds |-> F64Zero, distance_meters |-> F64Zero]

ActivityLap_default ==
    [total_time_seconds |-> F64Zero, distance_meters |-> F64Zero, maximum_speed |-> None,
     calories |-> 0, average_heart_rate_bpm |-> None, maximum_heart_rate_bpm |-> None,
     intensity |-> "Active", cadence |-> None, trigger_method |-> "Manual",
     track_points |-> <<>>, notes |-> None, start_time |-> DateTime_default,
     extension |-> None]

TrackPoint_default ==
    [time |-> DateTime_default, position |-> None, altitude_meters |-> None,
     distance_meters |-> None, heart_rate_bpm |-> None, cadence |-> None,
     sensor_state |-> None, extension |-> None]

Position_default == [latitude_degrees |-> F64Zero, longitude_degrees |-> F64Zero]

SourceType_Application(a) == [variant |-> "Application", v |-> a]
SourceType_Device(d) == [variant |-> "Device", v |-> d]

(***************************************************************************)
(* Events of the tokenizer (quick_xml::events::Event), as the readers see  *)
(* them.  attrs is the sequence of the start tag's attributes, each a pair *)
(* <<key, value>>.                                                         *)
(***************************************************************************)
EvStart(name, attrs) == [k |-> "Start", name |-> name, attrs |-> attrs, text |-> <<>>]
EvText(t) == [k |-> "Text", name |-> "", attrs |-> <<>>, text |-> t]
EvEnd(name) == [k |-> "End", name |-> name, attrs |-> <<>>, text |-> <<>>]
EvEof == [k |-> "Eof", name |-> "", attrs |-> <<>>, text |-> <<>>]
EvErr == [k |-> "Err", name |-> "", attrs |-> <<>>, text |-> <<>>]

(***************************************************************************)
(* What a reader does on the start tag of a child: the arms of its match.  *)
(*   text    a text macro: must_read_text(_as(_date)) or opt_read_text...  *)
(*   value   opt_read_value_as                                             *)
(*   call    the reader of a composite child                               *)
(*   source  read_type, then read_application or read_device               *)
(*   skip    the arm _ => ()                                               *)
(***************************************************************************)
Arm(a, attr, ty, opt, fn, close, how) ==
    [a |-> a, attr |-> attr, ty |-> ty, opt |-> opt, fn |-> fn, close |-> close, how |-> how]
MustText(attr, ty) == Arm("text", attr, ty, FALSE, "", "", "")
OptText(attr, ty) == Arm("text", attr, ty, TRUE, "", "", "")
OptValue(attr, ty) == Arm("value", attr, ty, TRUE, "", "", "")
Call(fn, close, attr, how) == Arm("call", attr, "", FALSE, fn, close, how)
Source(attr, close) == Arm("source", attr, "", FALSE, "", close, "")
Skip == Arm("skip", "", "", FALSE, "", "", "")

read_training_center_arms(name) ==
    CASE name = "Author" -> Source("author", "Author")
      [] name = "Activities" -> Call("read_activity_list", "Activities", "activity_list", "some")
      [] OTHER -> Skip

read_activity_list_arms(name) ==
    CASE name = "Activity" -> Call("read_activity", "Activity", "activities", "push")
      [] OTHER -> Skip

read_activity_arms(name) ==
    CASE name = "Id" -> MustText("id", "date")
      [] name = "Lap" -> Call("read_activity_lap", "Lap", "laps", "push")
      [] name = "Notes" -> OptText("notes", "String")
      [] name = "Training" -> Call("read_training", "Training", "training", "some")
      [] name = "Creator" -> Source("creator", "Creator")
      [] name = "Sport" -> MustText("sport", "Sport")
      [] OTHER -> Skip

\* a Lap reader without an arm for Track: the events inside a Track are
\* matched by the arms of the lap itself
read_activity_lap_arms_flat(name) ==
    CASE name = "TotalTimeSeconds" -> MustText("total_time_seconds", "f64")
      [] name = "DistanceMeters" -> MustText("distance_meters", "f64")
      [] name = "MaximumSpeed" -> OptText("maximum_speed", "f64")
      [] name = "Calories" -> MustText("calories", "u16")
      [] name = "AverageHeartRateBpm" -> OptValue("average_heart_rate_bpm", "u8")
      [] name = "MaximumHeartRateBpm" -> OptValue("maximum_heart_rate_bpm", "u8")
      [] name = "Intensity" -> MustText("intensity", "Intensity")
      [] name = "Cadence" -> OptText("cadence", "u8")
      [] name = "TriggerMethod" -> MustText("trigger_method", "TriggerMethod")
      [] name = "Notes" -> OptText("notes", "String")
      [] OTHER -> Skip

read_activity_lap_arms(name) ==
    CASE name = "TotalTimeSeconds" -> MustText("total_time_seconds", "f64")
      [] name = "DistanceMeters" -> MustText("distance_meters", "f64")
      [] name = "MaximumSpeed" -> OptText("maximum_speed", "f64")
      [] name = "Calories" -> MustText("calories", "u16")
      [] name = "AverageHeartRateBpm" -> OptValue("average_heart_rate_bpm", "u8")
      [] name = "MaximumHeartRateBpm" -> OptValue("maximum_heart_rate_bpm", "u8")
      [] name = "Intensity" -> MustText("intensity", "Intensity")
      [] name = "Cadence" -> OptText("cadence", "u8")
      [] name = "TriggerMethod" -> MustText("trigger_method", "TriggerMethod")
      [] name = "Track" -> Call("read_track", "Track", "track_points", "set")
      [] name = "Notes" -> OptText("notes", "String")
      [] OTHER -> Skip

read_track_arms(name) ==
    CASE name = "Trackpoint" -> Call("read_track_point", "Trackpoint", "", "pushvec")
      [] OTHER -> Skip

read_track_point_arms(name) ==
    CASE name = "Time" -> MustText("time", "date")
      [] name = "Position" -> Call("read_position", "Position", "position", "some")
      [] name = "AltitudeMeters" -> OptText("altitude_meters", "f64")
      [] name = "DistanceMeters" -> OptText("distance_meters", "f64")
      [] name = "HeartRateBpm" -> OptValue("heart_rate_bpm", "u8")
      [] name = "Cadence" -> OptText("cadence", "u8")
      [] name = "SensorState" -> OptText("sensor_state", "SensorState")
      [] OTHER -> Skip

read_position_arms(name) ==
    CASE name = "LatitudeDegrees" -> MustText("latitude_degrees", "f64")
      [] name = "LongitudeDegrees" -> MustText("longitude_degrees", "f64")
      [] OTHER -> Skip

read_plan_arms(name) ==
    CASE name = "Name" -> OptText("name", "String")
      [] OTHER -> Skip

read_quick_workout_arms(name) ==
    CASE name = "TotalTimeSeconds" -> MustText("total_time_seconds", "f64")
      [] name = "DistanceMeters" -> MustText("distance_meters", "f64")
      [] OTHER -> Skip

read_training_arms(name) ==
    CASE name = "QuickWorkoutResults" ->
            Call("read_quick_workout", "QuickWorkoutResults", "quick_workout_results", "some")
      [] name = "Plan" -> Call("read_plan", "Plan", "plan", "some")
      [] OTHER -> Skip

read_device_arms(name) ==
    CASE name = "Name" -> MustText("name", "String")
      [] name = "UnitId" -> MustText("unit_id", "u32")
      [] name = "ProductID" -> MustText("product_id", "u16")
      [] name = "Version" -> Call("read_version", "", "version", "set")
      [] OTHER -> Skip

read_application_arms(name) ==
    CASE name = "Name" -> MustText("name", "String")
      [] name = "Build" -> Call("read_build", "", "build", "set")
      [] name = "LangID" -> MustText("lang_id", "String")
      [] name = "PartNumber" -> MustText("part_number", "String")
      [] OTHER -> Skip

read_build_arms(name) ==
    CASE name = "Version" -> Call("read_version", "", "version", "set")
      [] name = "Time" -> OptText("time", "String")
      [] name = "Build" -> OptText("builder", "String")
      [] name = "Type" -> OptText("build_type", "BuildType")
      [] OTHER -> Skip

read_version_arms(name) ==
    CASE name = "VersionMajor" -> MustText("version_major", "u16")
      [] name = "VersionMinor" -> MustText("version_minor", "u16")
      [] name = "BuildMajor" -> OptText("build_major", "u16")
      [] name = "BuildMinor" -> OptText("build_minor", "u16")
      [] OTHER -> Skip

opt_read_value_as_arms(name) ==
    CASE name = "Value" -> OptText("", "")
      [] OTHER -> Skip

Readers == {"read_training_center", "read_activity_list", "read_activity",
            "read_activity_lap", "read_track", "read_track_point", "read_position",
            "read_plan", "read_quick_workout", "read_training", "read_device",
            "read_application", "read_build", "read_version"}

Arms(fn, name) ==
    CASE fn = "read_training_center" -> read_training_center_arms(name)
      [] fn = "read_activity_list" -> read_activity_list_arms(name)
      [] fn = "read_activity" -> read_activity_arms(name)
      [] fn = "read_activity_lap" -> read_activity_lap_arms(name)
      [] fn = "read_track" -> read_track_arms(name)
      [] fn = "read_track_point" -> read_track_point_arms(name)
      [] fn = "read_position" -> read_position_arms(name)
      [] fn = "read_plan" -> read_plan_arms(name)
      [] fn = "read_quick_workout" -> read_quick_workout_arms(name)
      [] fn = "read_training" -> read_training_arms(name)
      [] fn = "read_device" -> read_device_arms(name)
      [] fn = "read_application" -> read_application_arms(name)
      [] fn = "read_build" -> read_build_arms(name)
      [] fn = "read_version" -> read_version_arms(name)
      [] fn = "opt_read_value_as" -> opt_read_value_as_arms(name)

\* the End name on which a reader's loop breaks: its close_tag argument, or the
\* name its match spells out
CloseTag(fn, close_tag) ==
    CASE fn = "read_training_center" -> "TrainingCenterDatabase"
      [] fn = "read_build" -> "Build"
      [] fn = "read_version" -> "Version"
      [] fn = "opt_read_value_as" -> "Value"
      [] OTHER -> close_tag

\* readers that keep the activity list of an earlier call of read and go on
\* from it
InitialValue_kept(fn) ==
    CASE fn = "read_training_center" -> TrainingCenterDatabase_new
      [] fn = "read_activity_list" ->
            IF last.call = 2 /\ last.first.tag = "Ok" /\ IsSome(last.first.val.activity_list)
            THEN Unwrap(last.first.val.activity_list)
            ELSE ActivityList_default
      [] fn = "read_activity" -> Activity_default
      [] fn = "read_activity_lap" -> ActivityLap_default
      [] fn = "read_track" -> <<>>
      [] fn = "read_track_point" -> TrackPoint_default
      [] fn = "read_position" -> Position_default
      [] fn = "read_plan" -> Plan_default
      [] fn = "read_quick_workout" -> QuickWorkout_default
      [] fn = "read_training" -> Training_default
      [] fn = "read_device" -> Device_default
      [] fn = "read_application" -> Application_default
      [] fn = "read_build" -> Build_default
      [] fn = "read_version" -> Version_default

\* the value a reader's let mut starts from
InitialValue(fn) ==
    CASE fn = "read_training_center" -> TrainingCenterDatabase_new
      [] fn = "read_activity_list" -> ActivityList_default
      [] fn = "read_activity" -> Activity_default
      [] fn = "read_activity_lap" -> ActivityLap_default
      [] fn = "read_track" -> <<>>
      [] fn = "read_track_point" -> TrackPoint_default
      [] fn = "read_position" -> Position_default
      [] fn = "read_plan" -> Plan_default
      [] fn = "read_quick_workout" -> QuickWorkout_default
      [] fn = "read_training" -> Training_default
      [] fn = "read_device" -> Device_default
      [] fn = "read_application" -> Application_default
      [] fn = "read_build" -> Build_default
      [] fn = "read_version" -> Version_default

(***************************************************************************)
(* The readers.  A frame is one invocation: the reader, its close_tag, the *)
(* value it is building, where its result goes in the caller (attr, how),  *)
(* and lo, the position in events of the start tag it was called on.       *)
(* The frame of opt_read_value_as is the macro's loop: it builds nothing   *)
(* and writes the caller's field attr, of type ty.                         *)
(***************************************************************************)
Frame(fn, close, val, attr, how, ty, lo) ==
    [fn |-> fn, close |-> close, val |-> val, attr |-> attr, how |-> how, ty |-> ty, lo |-> lo]

Top(stk) == stk[Len(stk)]
Push(stk, f) == Append(stk, f)
Pop(stk) == SubSeq(stk, 1, Len(stk) - 1)
SetTopVal(stk, v) == [stk EXCEPT ![Len(stk)].val = v]

Running == [tag |-> "Running", val |-> <<>>, err |-> Ok(0)]
Failed(r) == [tag |-> "Err", val |-> <<>>, err |-> r]
Succeeded(v) == [tag |-> "Ok", val |-> v, err |-> Ok(0)]

\* a step's outcome: the readers left, the result of read, and the value a
\* reader returned in this step, if one did
Continue(stk) == [stack |-> stk, result |-> Running, ret |-> None]
Fail(r) == [stack |-> <<>>, result |-> Failed(r), ret |-> None]

\* the first attribute with the key, as a position in attrs (0: none)
AttrIndex(attrs, key) ==
    IF \E i \in 1..Len(attrs) : attrs[i][1] = key
    THEN CHOOSE i \in 1..Len(attrs) :
            attrs[i][1] = key /\ \A j \in 1..(i-1) : attrs[j][1] # key
    ELSE 0

read_type(e) ==
    LET i == AttrIndex(e.attrs, "xsi:type")
    IN  IF i = 0 THEN Err("TypeNotDefined") ELSE unescape_and_decode(e.attrs[i][2])

\* unescape_and_decode(..)? followed by from_str(..)?: the first error returns
Converted(u, ty) == IF ~u.ok THEN u ELSE from_str(ty, u.v)

\* a Lap reader that takes every attribute for the start time
lap_attribute_any_key(a_lap, key, r) ==
    IF ~r.ok THEN r ELSE Ok([a_lap EXCEPT !.start_time = r.v])

\* one attribute of a Lap start tag: r is its value converted to a timestamp
lap_attribute(a_lap, key, r) ==
    IF key # "StartTime" THEN Ok(a_lap)
    ELSE IF ~r.ok THEN r
    ELSE Ok([a_lap EXCEPT !.start_time = r.v])

RECURSIVE read_activity_lap_attributes(_, _)
\* the for loop over lap_element.attributes(); res is the lap so far
read_activity_lap_attributes(attrs, res) ==
    IF attrs = <<>> \/ ~res.ok THEN res
    ELSE read_activity_lap_attributes(Tail(attrs),
            lap_attribute(res.v, Head(attrs)[1],
                          Converted(unescape_and_decode(Head(attrs)[2]), "date")))

\* a Plan reader that takes an IntervalWorkout it cannot convert for absent
plan_attribute_lenient(plan, key, t, b) ==
    CASE key = "Type" ->
            IF ~t.ok THEN t ELSE Ok([plan EXCEPT !.training_type = t.v])
      [] key = "IntervalWorkout" ->
            IF ~b.ok THEN Ok(plan) ELSE Ok([plan EXCEPT !.interval_workout = b.v])
      [] OTHER -> Ok(plan)

\* one attribute of a Plan start tag: t is its value converted to a training
\* type, b to a bool
plan_attribute(plan, key, t, b) ==
    CASE key = "Type" ->
            IF ~t.ok THEN t ELSE Ok([plan EXCEPT !.training_type = t.v])
      [] key = "IntervalWorkout" ->
            IF ~b.ok THEN b ELSE Ok([plan EXCEPT !.interval_workout = b.v])
      [] OTHER -> Ok(plan)

RECURSIVE read_plan_attributes(_, _)
\* the for loop over plan_element.attributes(); res is the plan so far
read_plan_attributes(attrs, res) ==
    IF attrs = <<>> \/ ~res.ok THEN res
    ELSE read_plan_attributes(Tail(attrs),
            plan_attribute(res.v, Head(attrs)[1],
                           Converted(unescape_and_decode(Head(attrs)[2]), "TrainingType"),
                           Converted(unescape_and_decode(Head(attrs)[2]), "bool")))

\* what a reader does before its loop, on the start tag it was called with
Prologue(fn, e) ==
    CASE fn = "read_activity_lap" -> read_activity_lap_attributes(e.attrs, Ok(ActivityLap_default))
      [] fn = "read_plan" -> read_plan_attributes(e.attrs, Ok(Plan_default))
      [] OTHER -> Ok(InitialValue(fn))

\* an assignment that refuses a cadence of more than 254
Assigned_checked(val, attr, opt, r) ==
    IF ~r.ok THEN r
    ELSE IF attr = "cadence" /\ r.v > 254 THEN Err("ValidationError")
    ELSE Ok([val EXCEPT ![attr] = IF opt THEN Some(r.v) ELSE r.v])

\* the assignment of a text macro: r is the converted text
Assigned(val, attr, opt, r) ==
    IF ~r.ok THEN r ELSE Ok([val EXCEPT ![attr] = IF opt THEN Some(r.v) ELSE r.v])

\* the text macros, on the event e pulled right after the start tag: a Text is
\* unescaped, converted and stored; any other event is dropped
read_text(val, attr, ty, opt, e) ==
    IF e.k # "Text" THEN Ok(val)
    ELSE Assigned(val, attr, opt, Converted(unescape_and_decode(e.text), ty))

\* a reader's loop breaks: its value goes where the caller put the call
Return(stk, hi) ==
    LET f == Top(stk)
        n == Len(stk)
        p == stk[n - 1]
        v == CASE f.how = "push" -> [p.val EXCEPT ![f.attr] = Append(@, f.val)]
               [] f.how = "pushvec" -> Append(p.val, f.val)
               [] f.how = "some" -> [p.val EXCEPT ![f.attr] = Some(f.val)]
               [] f.how = "set" -> [p.val EXCEPT ![f.attr] = f.val]
               [] f.how = "app" -> [p.val EXCEPT ![f.attr] = Some(SourceType_Application(f.val))]
               [] f.how = "dev" -> [p.val EXCEPT ![f.attr] = Some(SourceType_Device(f.val))]
        r == Some([fn |-> f.fn, val |-> f.val, lo |-> f.lo, hi |-> hi, attr |-> f.attr])
    IN  IF f.fn = "opt_read_value_as"
        THEN [stack |-> Pop(stk), result |-> Running, ret |-> r]
        ELSE IF n = 1
        THEN [stack |-> <<>>, result |-> Succeeded(f.val), ret |-> r]
        ELSE [stack |-> SetTopVal(Pop(stk), v), result |-> Running, ret |-> r]

\* the frame whose value a text macro assigns to: the Value loop is expanded
\* in its caller and assigns to the caller's value
Target(stk) == IF Top(stk).fn = "opt_read_value_as" THEN Len(stk) - 1 ELSE Len(stk)

\* after a text macro with outcome r
Stored(stk, r) ==
    IF r.ok THEN Continue([stk EXCEPT ![Target(stk)].val = r.v]) ELSE Fail(r)

\* after the prologue of a called reader with outcome pr
Called(stk, i, arm, pr) ==
    IF pr.ok
    THEN Continue(Push(stk, Frame(arm.fn, arm.close, pr.v, arm.attr, arm.how, "", i)))
    ELSE Fail(pr)

\* the match on read_type's outcome t for an Author or Creator element
Sourced(stk, i, arm, t) ==
    IF ~t.ok THEN Fail(t)
    ELSE IF t.v = L_Application_t
    THEN Continue(Push(stk, Frame("read_application", arm.close,
                                  InitialValue("read_application"), arm.attr, "app", "", i)))
    ELSE IF t.v = L_Device_t
    THEN Continue(Push(stk, Frame("read_device", arm.close,
                                  InitialValue("read_device"), arm.attr, "dev", "", i)))
    ELSE Continue(stk)

\* the arm of the innermost reader f for the start tag e1
OnStart(stk, i, e1, e2, f, arm) ==
    CASE arm.a = "text" ->
            IF f.fn = "opt_read_value_as"
            THEN Stored(stk, read_text(stk[Target(stk)].val, f.attr, f.ty, TRUE, e2))
            ELSE Stored(stk, read_text(f.val, arm.attr, arm.ty, arm.opt, e2))
      [] arm.a = "value" ->
            Continue(Push(stk, Frame("opt_read_value_as", "", <<>>, arm.attr, "", arm.ty, i)))
      [] arm.a = "call" -> Called(stk, i, arm, Prologue(arm.fn, e1))
      [] arm.a = "source" -> Sourced(stk, i, arm, read_type(e1))
      [] OTHER -> Continue(stk)

\* one turn of the innermost reader's loop on the event e1 at position i of the
\* stream; e2 is the event a text macro pulls when e1 starts a scalar leaf
ReaderStep(stk, i, e1, e2) ==
    IF e1.k = "Start"
    THEN OnStart(stk, i, e1, e2, Top(stk), Arms(Top(stk).fn, e1.name))
    ELSE IF e1.k = "End"
    THEN IF e1.name = CloseTag(Top(stk).fn, Top(stk).close) THEN Return(stk, i)
         ELSE Continue(stk)
    ELSE IF e1.k = "Err"
    THEN Fail(Err("XmlReadError"))
    ELSE Continue(stk)

\* whether the reader pulls a second event in the same turn
PullsText(fn, e1) == e1.k = "Start" /\ Arms(fn, e1.name).a = "text"

(***************************************************************************)
(* The tokenizer, as the environment of the readers.  It returns the       *)
(* events of a well-nested document one by one (with check_end_names a     *)
(* mismatched end tag is an Err, never an End), may fail once with Err and *)
(* go on, and returns Eof for ever once the input has ended.  The          *)
(* documents follow the element order of the accepted surface, any child   *)
(* being optional.                                                         *)
(***************************************************************************)
MaxSiblings == 1      \* elements of one document that follow a sibling
MaxLapSiblings == 2   \* the same, in a document of laps only
MaxErrs == 1          \* tokenizer errors of one document
MaxErrAt == 4         \* an error is one of the first MaxErrAt events
MaxEofAt == 5         \* a truncated input ends within the first MaxEofAt events
MaxTwinSiblings == 1  \* siblings in a document that is read twice
MaxRangeSiblings == 1 \* siblings in a document of values that break constraints
MaxDateSiblings == 0  \* siblings in a document of timestamps
MaxConcSiblings == 0  \* siblings in a document read by one of two threads
MaxTopSiblings == 2   \* siblings in a document of top-level sections
MaxExtSiblings == 1   \* siblings in a document with an unrecognised element
MaxIntSiblings == 0   \* siblings in a document of integer leaves
MaxPlanSiblings == 1  \* siblings in a document of training plans
MaxTrackSiblings == 1 \* siblings in a document of a lap and its track

T_127 == <<"1","2","7">>
T_300 == <<"3","0","0">>
T_203 == <<"2","0","3">>
T_70000 == <<"7","0","0","0","0">>
T_1p5 == <<"1",".","5">>
T_abc == <<"a","b","c">>
T_Foo_t == <<"F","o","o","_","t">>
T_Bar_t == <<"B","a","r","_","t">>
T_Polar == <<"P","o","l","a","r">>
T_yes == <<"y","e","s">>
T_date == <<"2","0","2","0","-","1","2","-","2","8","T","1","3",":","3","6",":","1","6",".","4","5","3","Z">>
T_NaN == <<"N","a","N">>
T_east == <<"2","0","2","0","-","1","2","-","2","8","T","1","6",":","3","6",":","1","6","+","0","3",":","0","0">>
T_west == <<"2","0","1","9","-","0","2","-","2","8","T","2","3",":","5","9",":","5","9","-","0","5",":","3","0">>
T_notz == <<"2","0","2","0","-","1","2","-","2","8","T","1","3",":","3","6",":","1","6">>
T_feb30 == <<"2","0","2","0","-","0","2","-","3","0","T","0","0",":","0","0",":","0","0","Z">>
T_0 == <<"0">>
T_255 == <<"2","5","5">>
T_181 == <<"1","8","1">>
T_sixteen == <<"A","B","C","D","E","F","G","H","I","J","K","L","M","N","O","P">>
T_256 == <<"2","5","6">>
T_65535 == <<"6","5","5","3","5">>
T_65536 == <<"6","5","5","3","6">>
T_u32max == <<"4","2","9","4","9","6","7","2","9","5">>
T_u32over == <<"4","2","9","4","9","6","7","2","9","6">>
T_minus1 == <<"-","1">>
T_plus5 == <<"+","5">>
T_007 == <<"0","0","7">>
T_baddate == <<"2","0","2","0","-","1","3","-","0","1","T","0","0",":","0","0",":","0","0","Z">>

\* the texts a leaf of a type may carry: one that converts, one that does not
Texts(ty) ==
    CASE ty = "u8" -> {T_127, T_300}
      [] ty = "u16" -> {T_203, T_70000}
      [] ty = "u32" -> {T_70000, T_abc}
      [] ty = "f64" -> {T_1p5, T_abc}
      [] ty = "date" -> {T_date, T_baddate}
      [] ty = "String" -> {T_Polar}
      [] ty = "Sport" -> {L_Biking, T_abc}
      [] ty = "Intensity" -> {L_Resting, T_abc}
      [] ty = "TriggerMethod" -> {L_Distance, T_abc}
      [] ty = "SensorState" -> {L_Absent, T_abc}
      [] ty = "BuildType" -> {L_Release, T_abc}
      [] OTHER -> {}

\* timestamps: three that are well formed, with and without an offset, and
\* three that are not (month 13, no timezone, 30 February)
DateTexts == {T_date, T_east, T_west, T_baddate, T_notz, T_feb30}

\* the texts of a leaf in the documents of a profile
ProfileTexts(profile, ty) ==
    CASE profile = "twin" /\ ty = "f64" -> {T_1p5, T_NaN, T_abc}
      [] profile = "dates" /\ ty = "date" -> DateTexts
      [] profile = "range" /\ ty = "u8" -> {T_0, T_255}
      [] profile = "range" /\ ty = "f64" -> {T_181}
      [] profile = "range" /\ ty = "String" -> {T_sixteen}
      [] profile = "track" /\ ty = "u8" -> {T_127, T_0}
      [] profile = "track" /\ ty = "f64" -> {T_1p5}
      [] profile = "ints" /\ ty = "u8" -> {T_0, T_255, T_256, T_minus1, T_plus5, T_007, T_1p5}
      [] profile = "ints" /\ ty = "u16" -> {T_0, T_65535, T_65536, T_minus1, T_abc}
      [] profile = "ints" /\ ty = "u32" -> {T_70000, T_u32max, T_u32over, T_minus1, T_abc}
      [] OTHER -> Texts(ty)

\* a child an element may have: its name, whether it may come again, and the
\* forms of its start tag, each with the kind of content that follows
Item(name, rep, forms) == [name |-> name, rep |-> rep, forms |-> forms]
Form(attrs, ctx, ty) == [attrs |-> attrs, ctx |-> ctx, ty |-> ty]
Leaf(name, ty) == Item(name, FALSE, {Form(<<>>, "Leaf", ty)})
Wrapper(name) == Item(name, FALSE, {Form(<<>>, "Wrapper", "")})
Entity(name, ctx) == Item(name, FALSE, {Form(<<>>, ctx, "")})
Entities(name, ctx) == Item(name, TRUE, {Form(<<>>, ctx, "")})
SourceForms ==
    {Form(<<>>, "Opaque", ""),
     Form(<< <<"xsi:type", T_Foo_t>> >>, "Opaque", ""),
     Form(<< <<"xsi:type", L_Application_t>> >>, "Application", ""),
     Form(<< <<"xsi:type", L_Device_t>> >>, "Device", ""),
     Form(<< <<"xsi:type", T_Bar_t>> >>, "Foreign", "")}
LapForms ==
    {Form(<<>>, "Lap", "")}
        \cup {Form(<< <<"StartTime", t>> >>, "Lap", "") : t \in DateTexts}
\* more start tags of a Lap: an attribute the reader does not know, alone,
\* before and after the StartTime
MoreLapForms ==
    {Form(<< <<"Id", T_notz>> >>, "Lap", ""),
     Form(<< <<"Id", T_abc>>, <<"StartTime", T_west>> >>, "Lap", ""),
     Form(<< <<"StartTime", T_east>>, <<"Id", T_feb30>> >>, "Lap", ""),
     Form(<< <<"Id", T_date>>, <<"StartTime", T_baddate>> >>, "Lap", "")}
PlanForms ==
    {Form(<<>>, "Plan", ""),
     Form(<< <<"Type", L_Course>>, <<"IntervalWorkout", L_true>> >>, "Plan", ""),
     Form(<< <<"Type", T_abc>> >>, "Plan", ""),
     Form(<< <<"IntervalWorkout", T_yes>> >>, "Plan", "")}
\* more start tags of a Plan: one attribute alone, the two in the other order,
\* an attribute the reader does not know, a literal in the wrong case
MorePlanForms ==
    {Form(<< <<"Type", L_Workout>> >>, "Plan", ""),
     Form(<< <<"IntervalWorkout", L_false>>, <<"Type", L_Course>> >>, "Plan", ""),
     Form(<< <<"Id", T_abc>>, <<"IntervalWorkout", L_true>> >>, "Plan", ""),
     Form(<< <<"Type", LowerText(L_Course)>> >>, "Plan", "")}

Menu(ctx) ==
    CASE ctx = "Doc" -> << Entity("TrainingCenterDatabase", "TCD") >>
      [] ctx = "TCD" -> << Entity("Activities", "Activities"), Item("Author", FALSE, SourceForms) >>
      [] ctx = "Activities" -> << Entities("Activity", "Activity") >>
      [] ctx = "Activity" ->
            << Leaf("Id", "date"), Item("Lap", TRUE, LapForms \cup MoreLapForms),
               Leaf("Notes", "String"),
               Entity("Training", "Training"), Item("Creator", FALSE, SourceForms),
               Leaf("Sport", "Sport"), Entity("Extensions", "Unknown") >>
      [] ctx = "Lap" ->
            << Leaf("TotalTimeSeconds", "f64"), Leaf("DistanceMeters", "f64"),
               Leaf("MaximumSpeed", "f64"), Leaf("Calories", "u16"),
               Wrapper("AverageHeartRateBpm"), Wrapper("MaximumHeartRateBpm"),
               Leaf("Intensity", "Intensity"), Leaf("Cadence", "u8"),
               Leaf("TriggerMethod", "TriggerMethod"), Entities("Track", "Track"),
               Leaf("Notes", "String") >>
      [] ctx = "Wrapper" -> << Leaf("Value", "u8") >>
      [] ctx = "Track" -> << Entities("Trackpoint", "Trackpoint") >>
      [] ctx = "Trackpoint" ->
            << Leaf("Time", "date"), Entity("Position", "Position"),
               Leaf("AltitudeMeters", "f64"), Leaf("DistanceMeters", "f64"),
               Wrapper("HeartRateBpm"), Leaf("Cadence", "u8"),
               Leaf("SensorState", "SensorState") >>
      [] ctx = "Position" ->
            << Leaf("LatitudeDegrees", "f64"), Leaf("LongitudeDegrees", "f64") >>
      [] ctx = "Training" ->
            << Entity("QuickWorkoutResults", "QuickWorkoutResults"),
               Item("Plan", FALSE, PlanForms \cup MorePlanForms) >>
      [] ctx = "QuickWorkoutResults" ->
            << Leaf("TotalTimeSeconds", "f64"), Leaf("DistanceMeters", "f64") >>
      [] ctx = "Plan" -> << Leaf("Name", "String") >>
      [] ctx = "Device" ->
            << Leaf("Name", "String"), Leaf("UnitId", "u32"), Leaf("ProductID", "u16"),
               Entity("Version", "Version") >>
      [] ctx = "Application" ->
            << Leaf("Name", "String"), Entity("Build", "Build"), Leaf("LangID", "String"),
               Leaf("PartNumber", "String") >>
      [] ctx = "Build" ->
            << Entity("Version", "Version"), Leaf("Time", "String"), Leaf("Build", "String"),
               Leaf("Type", "BuildType") >>
      [] ctx = "Version" ->
            << Leaf("VersionMajor", "u16"), Leaf("VersionMinor", "u16"),
               Leaf("BuildMajor", "u16"), Leaf("BuildMinor", "u16") >>
      [] ctx = "Opaque" ->
            << Leaf("Name", "String"),
               Item("Creator", FALSE, {Form(<< <<"xsi:type", L_Device_t>> >>, "Device", "")}) >>
      [] ctx \in {"Unknown", "Foreign"} ->
            << Item("Lap", FALSE, {Form(<<>>, "Lap", "")}), Leaf("Notes", "String") >>
      [] OTHER -> << >>

\* the children of an element in the documents of a profile: in a document of
\* a lap and its track the Track may stand before or after the lap's leaves
MenuOf(profile, ctx) ==
    IF profile = "track" /\ ctx = "Lap"
    THEN << Entities("Track", "Track"), Leaf("DistanceMeters", "f64"), Leaf("Cadence", "u8"),
            Leaf("Notes", "String"), Entities("Track", "Track") >>
    ELSE Menu(ctx)

\* the documents: every element of the accepted surface with few siblings, or
\* laps with their heart rates, intensity and cadence only, with more of them
Profiles == {"all", "laps"}
LapNames == {"TrainingCenterDatabase", "Activities", "Activity", "Lap",
             "AverageHeartRateBpm", "MaximumHeartRateBpm", "Intensity", "Cadence",
             "Value"}
TwinNames == {"TrainingCenterDatabase", "Activities", "Activity", "Lap",
              "TotalTimeSeconds", "Cadence"}
\* documents with an element no reader has an arm for, Extensions, or with a
\* Creator of a type no reader knows, Bar_t; both have descendants of
\* recognised names
ExtNames == {"TrainingCenterDatabase", "Activities", "Activity", "Lap", "Notes",
             "Cadence", "Creator", "Extensions"}
\* documents of the fields that have a constraint, with values that break it
RangeNames == {"TrainingCenterDatabase", "Activities", "Activity", "Lap",
               "AverageHeartRateBpm", "Value", "Cadence", "Track", "Trackpoint",
               "Position", "LatitudeDegrees", "LongitudeDegrees", "Training", "Plan",
               "Name", "Author", "LangID", "PartNumber"}
\* documents of the elements and the attribute that carry a timestamp
DateNames == {"TrainingCenterDatabase", "Activities", "Activity", "Id", "Lap", "Track",
              "Trackpoint", "Time"}
\* documents of an author and its part number
ConcNames == {"TrainingCenterDatabase", "Author", "LangID", "PartNumber"}
\* documents of the top-level sections the reader knows
TopNames == {"TrainingCenterDatabase", "Activities", "Activity", "Author", "Name"}
\* documents of the leaves that hold an integer
IntNames == {"TrainingCenterDatabase", "Activities", "Activity", "Lap", "Calories",
             "AverageHeartRateBpm", "MaximumHeartRateBpm", "Cadence", "Value", "Track",
             "Trackpoint", "HeartRateBpm", "Creator", "UnitId", "ProductID", "Version",
             "VersionMajor", "VersionMinor", "BuildMajor", "BuildMinor"}
\* documents of training plans
PlanNames == {"TrainingCenterDatabase", "Activities", "Activity", "Training", "Plan",
              "Name"}
\* documents of a lap with a track whose points have children of the names
\* of the lap's own
TrackNames == {"TrainingCenterDatabase", "Activities", "Activity", "Lap", "DistanceMeters",
               "Cadence", "Notes", "Track", "Trackpoint", "HeartRateBpm", "Value"}
ProfileNames(profile) ==
    CASE profile = "laps" -> LapNames
      [] profile = "track" -> TrackNames
      [] profile = "plan" -> PlanNames
      [] profile = "ints" -> IntNames
      [] profile = "top" -> TopNames
      [] profile = "conc" -> ConcNames
      [] profile = "dates" -> DateNames
      [] profile = "range" -> RangeNames
      [] profile = "twin" -> TwinNames
      [] profile = "ext" -> ExtNames
Siblings(profile) ==
    CASE profile = "laps" -> MaxLapSiblings
      [] profile = "twin" -> MaxTwinSiblings
      [] profile = "ext" -> MaxExtSiblings
      [] profile = "range" -> MaxRangeSiblings
      [] profile = "dates" -> MaxDateSiblings
      [] profile = "conc" -> MaxConcSiblings
      [] profile = "top" -> MaxTopSiblings
      [] profile = "ints" -> MaxIntSiblings
      [] profile = "plan" -> MaxPlanSiblings
      [] profile = "track" -> MaxTrackSiblings
      [] OTHER -> MaxSiblings
Allowed(profile, item, form) ==
    CASE profile = "all" ->
            /\ form.ctx \notin {"Unknown", "Foreign"}
            /\ form \notin MorePlanForms \cup MoreLapForms
            /\ form.ctx = "Lap" => (form.attrs = <<>> \/ form.attrs[1][2] \in Texts("date"))
      [] profile \in {"dates", "top", "plan"} ->
            item.name \in ProfileNames(profile) /\ form.ctx # "Foreign"
      [] profile = "ext" ->
            /\ item.name \in ProfileNames(profile)
            /\ IF item.name = "Creator" THEN form.ctx = "Foreign" ELSE form.attrs = <<>>
      [] profile \in {"range", "conc"} ->
            /\ item.name \in ProfileNames(profile)
            /\ IF item.name = "Author" THEN form.ctx = "Application" ELSE form.attrs = <<>>
      [] profile = "ints" ->
            /\ item.name \in ProfileNames(profile)
            /\ IF item.name = "Creator" THEN form.ctx = "Device" ELSE form.attrs = <<>>
      [] OTHER -> item.name \in ProfileNames(profile) /\ form.attrs = <<>>

\* an element of the document: its name and attributes, the position of its
\* start tag in the stream, its text, its child elements in order, the kind
\* of its content and the type of its text when it is a leaf
Node(name, attrs, at, text, kids, ctx, ty) ==
    [name |-> name, attrs |-> attrs, at |-> at, text |-> text, kids |-> kids,
     ctx |-> ctx, ty |-> ty]

\* an open element: the element so far, the kind of its content, the type of
\* its text when it is a leaf, the first child of its menu that may still
\* come, and whether it has content yet
Open(name, attrs, at, ctx, ty) ==
    [name |-> name, attrs |-> attrs, at |-> at, text |-> None, kids |-> <<>>,
     ctx |-> ctx, ty |-> ty, next |-> 1, empty |-> TRUE]

TokInit(profile) ==
    [profile |-> profile, open |-> << Open("", <<>>, 0, "Doc", "") >>,
     sibs |-> 0, errs |-> 0, n |-> 0, eof |-> FALSE, spin |-> 0]

\* the document element has been closed
TokDone(tk) == Len(tk.open) = 1 /\ ~tk.open[1].empty

TokStarts(tk) ==
    LET top == Top(tk.open)
        m   == MenuOf(tk.profile, top.ctx)
    IN  IF top.empty \/ tk.sibs < Siblings(tk.profile)
        THEN UNION { { EvStart(m[j].name, f.attrs) :
                        f \in {x \in m[j].forms : Allowed(tk.profile, m[j], x)} } :
                     j \in top.next..Len(m) }
        ELSE {}

\* the events the tokenizer may return next
TokNext(tk) ==
    IF tk.eof THEN {EvEof}
    ELSE LET top == Top(tk.open)
         IN  (IF TokDone(tk) \/ tk.n < MaxEofAt THEN {EvEof} ELSE {})
             \cup (IF tk.errs < MaxErrs /\ tk.n < MaxErrAt /\ ~TokDone(tk) THEN {EvErr} ELSE {})
             \cup (IF Len(tk.open) > 1 THEN {EvEnd(top.name)} ELSE {})
             \cup (IF top.ctx = "Leaf" /\ top.empty
                   THEN {EvText(t) : t \in ProfileTexts(tk.profile, top.ty)} ELSE {})
             \cup TokStarts(tk)

\* the tokenizer after it has returned e as the event at position at
TokAfter(tk, e, at) ==
    LET d   == Len(tk.open)
        top == tk.open[d]
        m   == MenuOf(tk.profile, top.ctx)
        j   == CHOOSE i \in top.next..Len(m) : m[i].name = e.name
        f   == CHOOSE x \in m[j].forms : x.attrs = e.attrs
        t1  == [tk EXCEPT !.n = @ + 1]
    IN  CASE e.k = "Start" ->
                [t1 EXCEPT !.open = Append([tk.open EXCEPT ![d].empty = FALSE,
                                                           ![d].next = IF m[j].rep THEN j ELSE j + 1],
                                           Open(e.name, e.attrs, at, f.ctx, f.ty)),
                           !.sibs = IF top.empty THEN @ ELSE @ + 1]
          [] e.k = "Text" -> [t1 EXCEPT !.open[d].empty = FALSE,
                                        !.open[d].text = Some(e.text)]
          [] e.k = "End" ->
                [t1 EXCEPT !.open = [Pop(tk.open) EXCEPT ![d - 1].kids =
                        Append(@, Node(top.name, top.attrs, top.at, top.text, top.kids,
                                       top.ctx, top.ty))]]
          [] e.k = "Err" -> [t1 EXCEPT !.errs = @ + 1]
          [] e.k = "Eof" -> IF tk.eof THEN [tk EXCEPT !.spin = 1 - @]
                            ELSE [t1 EXCEPT !.eof = TRUE]

(***************************************************************************)
(* The state machine                                                       *)
(***************************************************************************)
NoEvent == [k |-> "None", name |-> "", attrs |-> <<>>, text |-> <<>>]
NoStep == [fn |-> "", e1 |-> NoEvent, e2 |-> NoEvent, ret |-> None, pre |-> <<>>]

Init ==
    /\ events = <<>>
    /\ tok \in {TokInit(p) : p \in Profiles}
    /\ stack = <<>>
    /\ result = [tag |-> "Init", val |-> <<>>, err |-> Ok(0)]
    /\ last = NoStep

\* lib.rs read: the tokenizer is built over the input and the database reader
\* is called on it
read ==
    /\ result.tag = "Init"
    /\ stack' = << Frame("read_training_center", "", TrainingCenterDatabase_new, "", "", "", 0) >>
    /\ result' = Running
    /\ last' = [NoStep EXCEPT !.fn = "read"]
    /\ UNCHANGED <<events, tok>>

\* the events of a turn, as the stream records them: Eof is recorded once
Recorded(tk, es) == SelectSeq(es, LAMBDA e : ~(e.k = "Eof" /\ tk.eof))

\* reader fn is running and is the innermost one
Innermost(fn) == result.tag = "Running" /\ stack # <<>> /\ Top(stack).fn = fn

\* one turn of the loop of reader fn: it pulls an event, and a second one
\* where the arm of the first reads a text
Turn(fn) ==
    \E e1 \in TokNext(tok) : \E tk1 \in {TokAfter(tok, e1, Len(events) + 1)} :
      \E e2 \in (IF PullsText(fn, e1) THEN TokNext(tk1) ELSE {NoEvent}) :
        \E out \in {ReaderStep(stack, Len(events) + 1, e1, e2)} :
          /\ events' = events \o Recorded(tok, IF e2 = NoEvent THEN <<e1>> ELSE <<e1, e2>>)
          /\ tok' = IF e2 = NoEvent THEN tk1 ELSE TokAfter(tk1, e2, Len(events) + 2)
          /\ stack' = out.stack
          /\ result' = out.result
          /\ last' = [fn |-> fn, e1 |-> e1, e2 |-> e2, ret |-> out.ret, pre |-> stack]

read_training_center ==
    /\ Innermost("read_training_center")
    /\ Turn("read_training_center")

read_activity_list ==
    /\ Innermost("read_activity_list")
    /\ Turn("read_activity_list")

read_activity ==
    /\ Innermost("read_activity")
    /\ Turn("read_activity")

read_activity_lap ==
    /\ Innermost("read_activity_lap")
    /\ Turn("read_activity_lap")

read_track ==
    /\ Innermost("read_track")
    /\ Turn("read_track")

read_track_point ==
    /\ Innermost("read_track_point")
    /\ Turn("read_track_point")

read_position ==
    /\ Innermost("read_position")
    /\ Turn("read_position")

read_plan ==
    /\ Innermost("read_plan")
    /\ Turn("read_plan")

read_quick_workout ==
    /\ Innermost("read_quick_workout")
    /\ Turn("read_quick_workout")

read_training ==
    /\ Innermost("read_training")
    /\ Turn("read_training")

read_device ==
    /\ Innermost("read_device")
    /\ Turn("read_device")

read_application ==
    /\ Innermost("read_application")
    /\ Turn("read_application")

read_build ==
    /\ Innermost("read_build")
    /\ Turn("read_build")

read_version ==
    /\ Innermost("read_version")
    /\ Turn("read_version")

opt_read_value_as ==
    /\ Innermost("opt_read_value_as")
    /\ Turn("opt_read_value_as")

Next ==
    \/ read
    \/ read_training_center
    \/ read_activity_list
    \/ read_activity
    \/ read_activity_lap
    \/ read_track
    \/ read_track_point
    \/ read_position
    \/ read_plan
    \/ read_quick_workout
    \/ read_training
    \/ read_device
    \/ read_application
    \/ read_build
    \/ read_version
    \/ opt_read_value_as

Spec == Init /\ [][Next]_vars

\* a call of read runs without interruption: its loops keep turning
FairSpec == Spec /\ WF_vars(Next)

(***************************************************************************)
(* The enum parsers on their own: a parser is applied to a text.           *)
(***************************************************************************)
L_running == LowerText(L_Running)
T_Running_ == L_Running \o <<" ">>
EnumTexts ==
    UNION {{Literal(v) : v \in Variants(e)} : e \in Enums}
    \cup {<<>>, T_abc, L_running, T_Running_, LowerText(L_HeartRate), LowerText(L_Bike)}

EnumInit ==
    /\ events = <<>>
    /\ tok \in {[enum |-> e, text |-> t] : e \in Enums, t \in EnumTexts}
    /\ stack = <<>>
    /\ result = [tag |-> "Init", val |-> <<>>, err |-> Ok(0)]
    /\ last = NoStep

\* <E as FromStr>::from_str(text)
parse_enum ==
    /\ result.tag = "Init"
    /\ \E r \in {enum_from_str(tok.enum, tok.text)} :
          result' = IF r.ok THEN Succeeded(r.v) ELSE Failed(r)
    /\ last' = [NoStep EXCEPT !.fn = "from_str"]
    /\ UNCHANGED <<events, tok, stack>>

EnumNext == parse_enum

EnumSpec == EnumInit /\ [][EnumNext]_vars

(***************************************************************************)
(* The document behind the stream, for the statements below                *)
(***************************************************************************)
RECURSIVE Descendants(_)
\* the elements inside an element, at any depth
Descendants(node) ==
    UNION { {node.kids[i]} \cup Descendants(node.kids[i]) : i \in 1..Len(node.kids) }

\* the elements whose end tag the tokenizer has returned
ClosedElements(tk) == UNION { Descendants(tk.open[i]) : i \in 1..Len(tk.open) }
IsClosed(tk, at) == \E n \in ClosedElements(tk) : n.at = at
IsOpen(tk, at) == \E i \in 1..Len(tk.open) : tk.open[i].at = at

\* the element whose start tag is the event at position at; position 0 stands
\* for the whole document
ElementAt(tk, at) ==
    IF at = 0 THEN tk.open[1] ELSE CHOOSE n \in ClosedElements(tk) : n.at = at

DescendantNames(node) == {n.name : n \in Descendants(node)}

\* the child of the name, if the element has one (the last one if several)
Kid(node, name) ==
    LET I == {i \in 1..Len(node.kids) : node.kids[i].name = name}
    IN  IF I = {} THEN None ELSE Some(node.kids[CHOOSE i \in I : \A j \in I : j <= i])

\* the text of an element or of an attribute value, converted as its type asks
TextAs(t, ty) == Converted(unescape_and_decode(t), ty)

\* a recognised leaf or attribute whose text fails its conversion
FailsConversion(n) ==
    \/ n.ctx = "Leaf" /\ IsSome(n.text) /\ ~TextAs(Unwrap(n.text), n.ty).ok
    \/ n.ctx = "Lap" /\ ~read_activity_lap_attributes(n.attrs, Ok(ActivityLap_default)).ok
    \/ n.ctx = "Plan" /\ ~read_plan_attributes(n.attrs, Ok(Plan_default)).ok

\* the value of the field a scalar child feeds: the default without the child
\* or without its text
Scalar(node, name, ty, default) ==
    LET k == Kid(node, name)
    IN  IF k = None \/ Unwrap(k).text = None THEN default
        ELSE TextAs(Unwrap(Unwrap(k).text), ty).v
OptScalar(node, name, ty) ==
    LET k == Kid(node, name)
    IN  IF k = None \/ Unwrap(k).text = None THEN None
        ELSE Some(TextAs(Unwrap(Unwrap(k).text), ty).v)

\* every text inside the element converts
Converts(node) == \A n \in Descendants(node) : ~FailsConversion(n)

ExpectedVersion(node) ==
    [version_major |-> Scalar(node, "VersionMajor", "u16", 0),
     version_minor |-> Scalar(node, "VersionMinor", "u16", 0),
     build_major |-> OptScalar(node, "BuildMajor", "u16"),
     build_minor |-> OptScalar(node, "BuildMinor", "u16")]

ExpectedVersionOf(node) ==
    IF Kid(node, "Version") = None THEN Version_default
    ELSE ExpectedVersion(Unwrap(Kid(node, "Version")))

ExpectedDevice(node) ==
    [name |-> Scalar(node, "Name", "String", <<>>),
     unit_id |-> Scalar(node, "UnitId", "u32", <<0, 0>>),
     product_id |-> Scalar(node, "ProductID", "u16", 0),
     version |-> ExpectedVersionOf(node)]

ExpectedBuild(node) ==
    [version |-> ExpectedVersionOf(node),
     build_type |-> OptScalar(node, "Type", "BuildType"),
     time |-> OptScalar(node, "Time", "String"),
     builder |-> OptScalar(node, "Build", "String")]

ExpectedApplication(node) ==
    [name |-> Scalar(node, "Name", "String", <<>>),
     build |-> IF Kid(node, "Build") = None THEN Build_default
               ELSE ExpectedBuild(Unwrap(Kid(node, "Build"))),
     lang_id |-> Scalar(node, "LangID", "String", <<>>),
     part_number |-> Scalar(node, "PartNumber", "String", <<>>)]

\* the last step made a reader of fns return
ReturnedFrom(fns) == IsSome(last.ret) /\ Unwrap(last.ret).fn \in fns

\* the start tag of an Author of the database or of a Creator of an Activity
IsSource(e) == e.k = "Start" /\ e.name \in {"Author", "Creator"}
\* the last step pulled such a start tag as its first event
PulledSource ==
    /\ IsSource(last.e1)
    /\ Len(tok.open) >= 2
    /\ tok.open[Len(tok.open) - 1].ctx \in {"TCD", "Activity"}
    /\ Top(tok.open).name = last.e1.name
    /\ Top(tok.open).empty

ElementNames ==
    {"Author", "Activities", "Activity", "Id", "Lap", "Notes", "Training", "Creator",
     "Sport", "TotalTimeSeconds", "DistanceMeters", "MaximumSpeed", "Calories",
     "AverageHeartRateBpm", "MaximumHeartRateBpm", "Intensity", "Cadence",
     "TriggerMethod", "Track", "Trackpoint", "Time", "Position", "AltitudeMeters",
     "HeartRateBpm", "SensorState", "LatitudeDegrees", "LongitudeDegrees", "Name",
     "QuickWorkoutResults", "Plan", "UnitId", "ProductID", "Version", "Build",
     "LangID", "PartNumber", "Type", "VersionMajor", "VersionMinor", "BuildMajor",
     "BuildMinor", "Value"}

\* the child names a reader has an arm for
ChildNames(fn) == {name \in ElementNames : Arms(fn, name).a # "skip"}

(***************************************************************************)
(* C1                                                                      *)
(***************************************************************************)
RECURSIVE Recognised(_)
\* the elements inside an element that are not inside an Author or Creator of
\* unknown or missing type
Recognised(node) ==
    IF node.ctx = "Opaque" THEN {}
    ELSE UNION { {node.kids[i]} \cup Recognised(node.kids[i]) : i \in 1..Len(node.kids) }

\* the same, of the whole document as far as it has been closed
RecognisedElements(tk) ==
    UNION { Recognised(tk.open[i]) :
                i \in {k \in 1..Len(tk.open) : \A j \in 1..k : tk.open[j].ctx # "Opaque"} }

\* C1: when read returns Ok, on a stream without tokenizer errors, no
\* recognised leaf element and no recognised attribute of the document has a
\* text that fails its scalar conversion.
C1_OkHasNoFailingLeaf ==
    (tok.errs = 0 /\ result.tag = "Ok") =>
        \A n \in RecognisedElements(tok) : ~FailsConversion(n)

(***************************************************************************)
(* C2                                                                      *)
(***************************************************************************)
\* C2: once the tokenizer has returned an error, read has failed with the XML
\* read error, wherever in the stream the error came.
C2_TokenizerErrorFailsRead ==
    tok.errs > 0 => result = Failed(Err("XmlReadError"))

(***************************************************************************)
(* C3                                                                      *)
(***************************************************************************)
\* C3: a read call eventually returns, with a result or with an error.
C3_ReadReturns == <>(result.tag \in {"Ok", "Err"})

(***************************************************************************)
(* C4                                                                      *)
(***************************************************************************)
\* C4: on a well-nested stream, the element of every reader invocation that
\* is still running is still open: no reader has consumed the End event of
\* its own element and gone on.
C4_ReadersStayInside ==
    tok.errs = 0 =>
        \A i \in 2..Len(stack) : IsOpen(tok, stack[i].lo)

(***************************************************************************)
(* C5                                                                      *)
(***************************************************************************)
\* C5: when the start tag of an Author of the database or of a Creator of an
\* Activity without an xsi:type attribute has been pulled, read has failed
\* with TypeNotDefined, and no further event was pulled with it.
C5_UntypedSourceFails ==
    (PulledSource /\ AttrIndex(last.e1.attrs, "xsi:type") = 0) =>
        (result = Failed(Err("TypeNotDefined")) /\ last.e2 = NoEvent)

(***************************************************************************)
(* C6                                                                      *)
(***************************************************************************)
\* an element whose xsi:type is neither Application_t nor Device_t
UnknownType(e) ==
    /\ AttrIndex(e.attrs, "xsi:type") # 0
    /\ read_type(e).ok
    /\ read_type(e).v \notin {L_Application_t, L_Device_t}

\* the element has a child of the name, and its type is unknown
HasUnknownSource(node, name) ==
    Kid(node, name) # None /\ UnknownType(Unwrap(Kid(node, name)))

\* C6: the start tag of an Author or Creator whose xsi:type is neither
\* Application_t nor Device_t does not fail the read, starts no reader and sets
\* no field; on a stream without tokenizer errors, the creator of an Activity
\* whose Creator has such a type is absent when its reader returns, and so is
\* the author of a returned tree whose Author has such a type.
C6_UnknownTypeIgnored ==
    /\ (PulledSource /\ UnknownType(last.e1)) =>
            (result = Running /\ stack = last.pre)
    /\ (tok.errs = 0 /\ ReturnedFrom({"read_activity"})
            /\ IsClosed(tok, Unwrap(last.ret).lo)
            /\ HasUnknownSource(ElementAt(tok, Unwrap(last.ret).lo), "Creator")) =>
            Unwrap(last.ret).val.creator = None
    /\ (tok.errs = 0 /\ result.tag = "Ok") =>
            \A n \in ClosedElements(tok) :
                (n.ctx = "TCD" /\ HasUnknownSource(n, "Author")) => result.val.author = None

(***************************************************************************)
(* C7                                                                      *)
(***************************************************************************)
\* C7: when the reader of an Author or Creator returns at the end of its
\* element, on a stream without tokenizer errors and with texts that all
\* convert, it is the Device reader exactly when xsi:type is Device_t, the
\* value is made of the element's children (Name, UnitId, ProductID, Version
\* for a Device; Name, Build, LangID, PartNumber for an Application), and the
\* field holds that variant.
C7_SourceFromChildren ==
    (tok.errs = 0 /\ ReturnedFrom({"read_device", "read_application"})
        /\ IsClosed(tok, Unwrap(last.ret).lo)
        /\ Converts(ElementAt(tok, Unwrap(last.ret).lo))) =>
        LET r    == Unwrap(last.ret)
            node == ElementAt(tok, r.lo)
        IN  /\ (r.fn = "read_device") <=> (read_type(node).v = L_Device_t)
            /\ r.val = IF r.fn = "read_device" THEN ExpectedDevice(node)
                       ELSE ExpectedApplication(node)
            /\ Top(stack).val[r.attr] =
                    Some(IF r.fn = "read_device" THEN SourceType_Device(r.val)
                         ELSE SourceType_Application(r.val))

(***************************************************************************)
(* C8                                                                      *)
(***************************************************************************)
\* C8: parsing a text as an enumeration succeeds exactly when the text is the
\* name of one of its variants, letter for letter, and yields that variant;
\* any other text fails with UnknownEnumValue of that enumeration and the text.
C8_EnumFromStr ==
    result.tag # "Init" =>
        IF \E v \in Variants(tok.enum) : Literal(v) = tok.text
        THEN /\ result.tag = "Ok"
             /\ result.val \in Variants(tok.enum)
             /\ Literal(result.val) = tok.text
        ELSE result = Failed(EnumErr(tok.enum, tok.text))

\* a text that differs from a variant's name by case only was refused
C8_Witness ==
    /\ tok.enum = "Sport"
    /\ tok.text = L_running
    /\ result = Failed(EnumErr("Sport", L_running))

(***************************************************************************)
(* C9                                                                      *)
(***************************************************************************)
Wrappers(fn) ==
    IF fn = "read_activity_lap" THEN {"AverageHeartRateBpm", "MaximumHeartRateBpm"}
    ELSE {"HeartRateBpm"}

\* the number in the Value child of a wrapper, if it has one with a text that
\* is a number of 0..255
ValueOf(wrapper) ==
    LET v == Kid(wrapper, "Value")
    IN  IF v = None \/ Unwrap(v).text = None THEN None
        ELSE IF TextAs(Unwrap(Unwrap(v).text), "u8").ok
        THEN Some(TextAs(Unwrap(Unwrap(v).text), "u8").v)
        ELSE None

\* C9: when the reader of a Lap or Trackpoint returns after the end of its
\* element on a stream without tokenizer errors: the field of a wrapper whose
\* Value has the text n is Some(n), and the field of a wrapper that is not
\* among the children is absent.
C9_HeartRateFromValue ==
    (tok.errs = 0 /\ ReturnedFrom({"read_activity_lap", "read_track_point"})
        /\ IsClosed(tok, Unwrap(last.ret).lo)) =>
        LET r    == Unwrap(last.ret)
            node == ElementAt(tok, r.lo)
        IN  \A w \in Wrappers(r.fn) :
                LET field == r.val[Arms(r.fn, w).attr]
                IN  IF Kid(node, w) = None THEN field = None
                    ELSE (IsSome(ValueOf(Unwrap(Kid(node, w))))
                            => field = ValueOf(Unwrap(Kid(node, w))))

(***************************************************************************)
(* C10                                                                     *)
(***************************************************************************)
\* C10: when a reader returns after the end of its element on a stream without
\* tokenizer errors, every field whose child element never appears inside the
\* element holds the value the reader started from: the type default of a
\* mandatory field, absence for an optional one.
C10_MissingChildKeepsDefault ==
    (tok.errs = 0 /\ ReturnedFrom(Readers)
        /\ (Unwrap(last.ret).lo = 0 \/ IsClosed(tok, Unwrap(last.ret).lo))) =>
        LET r    == Unwrap(last.ret)
            node == ElementAt(tok, r.lo)
        IN  \A name \in ChildNames(r.fn) \ DescendantNames(node) :
                IF r.fn = "read_track" THEN r.val = <<>>
                ELSE r.val[Arms(r.fn, name).attr] = InitialValue(r.fn)[Arms(r.fn, name).attr]

(***************************************************************************)
(* C11: the same input read twice.  The first call pulls the events of the *)
(* input from the tokenizer; the second call has a tokenizer of its own    *)
(* over the same bytes, which returns the same events.  last keeps the     *)
(* call that is running, the outcome of the first call and the number of   *)
(* events the second call has pulled.                                      *)
(***************************************************************************)
RECURSIVE PartialEq(_, _, _)
\* #[derive(PartialEq)] of the tree: field by field, with == of f64 on the
\* floats, under which a NaN equals nothing
PartialEq(ty, a, b) ==
    CASE ty = "f64" -> a.cls # "nan" /\ b.cls # "nan" /\ a = b
      [] ty = "Option<f64>" ->
            IF a = None \/ b = None THEN a = b ELSE PartialEq("f64", a[1], b[1])
      [] ty = "Position" ->
            /\ PartialEq("f64", a.latitude_degrees, b.latitude_degrees)
            /\ PartialEq("f64", a.longitude_degrees, b.longitude_degrees)
      [] ty = "TrackPoint" ->
            /\ a.time = b.time
            /\ IF a.position = None \/ b.position = None THEN a.position = b.position
               ELSE PartialEq("Position", a.position[1], b.position[1])
            /\ PartialEq("Option<f64>", a.altitude_meters, b.altitude_meters)
            /\ PartialEq("Option<f64>", a.distance_meters, b.distance_meters)
            /\ a.heart_rate_bpm = b.heart_rate_bpm
            /\ a.cadence = b.cadence
            /\ a.sensor_state = b.sensor_state
            /\ a.extension = b.extension
      [] ty = "ActivityLap" ->
            /\ PartialEq("f64", a.total_time_seconds, b.total_time_seconds)
            /\ PartialEq("f64", a.distance_meters, b.distance_meters)
            /\ PartialEq("Option<f64>", a.maximum_speed, b.maximum_speed)
            /\ a.calories = b.calories
            /\ a.average_heart_rate_bpm = b.average_heart_rate_bpm
            /\ a.maximum_heart_rate_bpm = b.maximum_heart_rate_bpm
            /\ a.intensity = b.intensity
            /\ a.cadence = b.cadence
            /\ a.trigger_method = b.trigger_method
            /\ Len(a.track_points) = Len(b.track_points)
            /\ \A i \in 1..Len(a.track_points) :
                    PartialEq("TrackPoint", a.track_points[i], b.track_points[i])
            /\ a.notes = b.notes
            /\ a.start_time = b.start_time
            /\ a.extension = b.extension
      [] ty = "QuickWorkout" ->
            /\ PartialEq("f64", a.total_time_seconds, b.total_time_seconds)
            /\ PartialEq("f64", a.distance_meters, b.distance_meters)
      [] ty = "Training" ->
            /\ IF a.quick_workout_results = None \/ b.quick_workout_results = None
               THEN a.quick_workout_results = b.quick_workout_results
               ELSE PartialEq("QuickWorkout", a.quick_workout_results[1],
                              b.quick_workout_results[1])
            /\ a.plan = b.plan
            /\ a.virtual_partner = b.virtual_partner
      [] ty = "Activity" ->
            /\ a.id = b.id
            /\ Len(a.laps) = Len(b.laps)
            /\ \A i \in 1..Len(a.laps) : PartialEq("ActivityLap", a.laps[i], b.laps[i])
            /\ a.notes = b.notes
            /\ IF a.training = None \/ b.training = None THEN a.training = b.training
               ELSE PartialEq("Training", a.training[1], b.training[1])
            /\ a.creator = b.creator
            /\ a.sport = b.sport
      [] ty = "ActivityList" ->
            /\ Len(a.activities) = Len(b.activities)
            /\ \A i \in 1..Len(a.activities) :
                    PartialEq("Activity", a.activities[i], b.activities[i])
            /\ a.multi_sport_sessions = b.multi_sport_sessions
      [] ty = "TrainingCenterDatabase" ->
            /\ a.folders = b.folders
            /\ IF a.activity_list = None \/ b.activity_list = None
               THEN a.activity_list = b.activity_list
               ELSE PartialEq("ActivityList", a.activity_list[1], b.activity_list[1])
            /\ a.workout_list = b.workout_list
            /\ a.course_list = b.course_list
            /\ a.author = b.author

NoCall == [call |-> 0, first |-> Running, pos |-> 0]

TwinInit ==
    /\ events = <<>>
    /\ tok = TokInit("twin")
    /\ stack = <<>>
    /\ result = [tag |-> "Init", val |-> <<>>, err |-> Ok(0)]
    /\ last = NoCall

\* the first call of read on the input
first_read ==
    /\ last.call = 0
    /\ stack' = << Frame("read_training_center", "", TrainingCenterDatabase_new, "", "", "", 0) >>
    /\ result' = Running
    /\ last' = [last EXCEPT !.call = 1]
    /\ UNCHANGED <<events, tok>>

\* one turn of the loop of the innermost reader of the first call
first_turn ==
    /\ last.call = 1
    /\ result.tag = "Running"
    /\ \E e1 \in TokNext(tok) : \E tk1 \in {TokAfter(tok, e1, Len(events) + 1)} :
         \E e2 \in (IF PullsText(Top(stack).fn, e1) THEN TokNext(tk1) ELSE {NoEvent}) :
           \E out \in {ReaderStep(stack, Len(events) + 1, e1, e2)} :
             /\ events' = events \o Recorded(tok, IF e2 = NoEvent THEN <<e1>> ELSE <<e1, e2>>)
             /\ tok' = IF e2 = NoEvent THEN tk1 ELSE TokAfter(tk1, e2, Len(events) + 2)
             /\ stack' = out.stack
             /\ result' = out.result
    /\ UNCHANGED last

\* the second call of read, on the same input, after the first has returned
second_read ==
    /\ last.call = 1
    /\ result.tag \in {"Ok", "Err"}
    /\ stack' = << Frame("read_training_center", "", TrainingCenterDatabase_new, "", "", "", 0) >>
    /\ result' = Running
    /\ last' = [call |-> 2, first |-> result, pos |-> 0]
    /\ UNCHANGED <<events, tok>>

\* the event at position k of the input; after its end, Eof
Input(k) == IF k <= Len(events) THEN events[k] ELSE EvEof

\* one turn of the loop of the innermost reader of the second call
second_turn ==
    /\ last.call = 2
    /\ result.tag = "Running"
    /\ last.pos < Len(events)
    /\ \E e1 \in {Input(last.pos + 1)} :
         \E e2 \in {IF PullsText(Top(stack).fn, e1) THEN Input(last.pos + 2) ELSE NoEvent} :
           \E out \in {ReaderStep(stack, last.pos + 1, e1, e2)} :
             /\ stack' = out.stack
             /\ result' = out.result
             /\ last' = [last EXCEPT !.pos = IF e2 = NoEvent THEN @ + 1 ELSE @ + 2]
    /\ UNCHANGED <<events, tok>>

TwinNext == first_read \/ first_turn \/ second_read \/ second_turn

TwinSpec == TwinInit /\ [][TwinNext]_vars

\* the second call has pulled the whole input
SecondDone == last.call = 2 /\ last.pos >= Len(events)

Kids(node, name) == SelectSeq(node.kids, LAMBDA k : k.name = name)

\* the timestamp a Lap element gives its lap: its StartTime attribute
StartTimeOf(lap) == read_activity_lap_attributes(lap.attrs, Ok(ActivityLap_default)).v.start_time

\* C12: when read returns Ok on a stream without tokenizer errors, the tree
\* has an activity list exactly when the database has an Activities element;
\* the list holds one activity per Activity element and each activity one lap
\* per Lap element of its Activity, in document order (the i-th lap has the
\* StartTime of the i-th Lap element), and multi_sport_sessions is empty.
C12_OnePerElement ==
    (tok.errs = 0 /\ result.tag = "Ok") =>
        LET acts == Kid(tok.open[1].kids[1], "Activities")
            list == result.val.activity_list
        IN  IF acts = None THEN list = None
            ELSE /\ IsSome(list)
                 /\ Unwrap(list).multi_sport_sessions = <<>>
                 /\ Len(Unwrap(list).activities) = Len(Kids(Unwrap(acts), "Activity"))
                 /\ \A i \in 1..Len(Unwrap(list).activities) :
                        LET laps == Unwrap(list).activities[i].laps
                            els  == Kids(Kids(Unwrap(acts), "Activity")[i], "Lap")
                        IN  /\ Len(laps) = Len(els)
                            /\ \A j \in 1..Len(laps) : laps[j].start_time = StartTimeOf(els[j])

(***************************************************************************)
(* C13: documents with an unrecognised element.  Extensions is a child of  *)
(* an Activity that no reader has an arm for; its subtree holds a Lap and  *)
(* a Notes.                                                                *)
(***************************************************************************)
ExtInit ==
    /\ events = <<>>
    /\ tok = TokInit("ext")
    /\ stack = <<>>
    /\ result = [tag |-> "Init", val |-> <<>>, err |-> Ok(0)]
    /\ last = NoStep

ExtNext ==
    \/ read
    \/ read_training_center
    \/ read_activity_list
    \/ read_activity
    \/ read_activity_lap

ExtSpec == ExtInit /\ [][ExtNext]_vars

\* the tokenizer is inside an unrecognised element
InUnknown(tk) == \E i \in 1..Len(tk.open) : tk.open[i].ctx = "Unknown"

\* C13: on a stream without tokenizer errors, the events of an unrecognised
\* element and of its whole subtree leave the readers as they are; and the
\* activity a reader returns at the end of its Activity element is the one of
\* the element without its unrecognised child: its notes are those of its own
\* Notes child, its laps one per Lap child of its own.
C13_UnknownSubtreeSkipped ==
    /\ (tok.errs = 0 /\ last.fn \in Readers
            /\ (InUnknown(tok) \/ last.e1 = EvEnd("Extensions"))) =>
            (result = Running /\ stack = last.pre)
    /\ (tok.errs = 0 /\ ReturnedFrom({"read_activity"})
            /\ IsClosed(tok, Unwrap(last.ret).lo)) =>
            LET r    == Unwrap(last.ret)
                node == ElementAt(tok, r.lo)
            IN  /\ r.val.notes = OptScalar(node, "Notes", "String")
                /\ Len(r.val.laps) = Len(Kids(node, "Lap"))

(***************************************************************************)
(* C14                                                                     *)
(***************************************************************************)
\* every scalar child of the element that reader fn has a text arm for, that
\* is the only child of its name and has a text, is what the field of value
\* val holds: a statement that does not depend on the order of the children
FieldsFromLeaves(fn, val, node) ==
    \A i \in 1..Len(node.kids) :
        (/\ Arms(fn, node.kids[i].name).a = "text"
         /\ Len(Kids(node, node.kids[i].name)) = 1
         /\ IsSome(node.kids[i].text)) =>
            val[Arms(fn, node.kids[i].name).attr] =
                IF Arms(fn, node.kids[i].name).opt
                THEN OptScalar(node, node.kids[i].name, Arms(fn, node.kids[i].name).ty)
                ELSE Scalar(node, node.kids[i].name, Arms(fn, node.kids[i].name).ty, 0)

\* C14: when the reader of a Lap, Trackpoint, Position, Activity, Device,
\* Application or Version returns at the end of its element, on a stream
\* without tokenizer errors and with texts that all convert, each field holds
\* the text of the child that feeds it, wherever among the children it
\* stands; and so does each field of the build of an Application, for the
\* children Time, Build and Type of its Build element.
C14_ChildOrderFree ==
    (tok.errs = 0
        /\ ReturnedFrom({"read_activity_lap", "read_track_point", "read_position",
                         "read_activity", "read_device", "read_application",
                         "read_version"})
        /\ IsClosed(tok, Unwrap(last.ret).lo)
        /\ Converts(ElementAt(tok, Unwrap(last.ret).lo))) =>
        LET r    == Unwrap(last.ret)
            node == ElementAt(tok, r.lo)
        IN  /\ FieldsFromLeaves(r.fn, r.val, node)
            /\ (r.fn = "read_application" /\ Kid(node, "Build") # None) =>
                    FieldsFromLeaves("read_build", r.val.build, Unwrap(Kid(node, "Build")))

(***************************************************************************)
(* C15: the constraints of types.rs (derive(Validate)), and documents      *)
(* whose values convert and break them.                                    *)
(***************************************************************************)
RECURSIVE MagLe(_, _, _)
\* m * 10^e <= n, for naturals m and n
MagLe(m, e, n) ==
    IF e > 0 THEN MagLe(m, e - 1, n \div 10)
    ELSE IF m <= n THEN TRUE
    ELSE IF e = 0 THEN FALSE
    ELSE MagLe(IF m % 10 = 0 THEN m \div 10 ELSE (m \div 10) + 1, e + 1, n)

\* range(min = -n, max = n) on an f64: a violation is val < min or val > max,
\* which no NaN is
range_f64(x, n) ==
    CASE x.cls = "nan" -> TRUE
      [] x.cls = "inf" -> FALSE
      [] OTHER -> MagLe(x.m, x.e, n)

ClassChars == {UpperChars[i] : i \in 1..26} \cup Digit

\* the twelve characters of t from position i on are XXX-XXXXX-XX
PartNumberAt(t, i) ==
    /\ i + 11 <= Len(t)
    /\ \A k \in {0, 1, 2, 4, 5, 6, 7, 8, 10, 11} : t[i + k] \in ClassChars
    /\ t[i + 3] = "-"
    /\ t[i + 9] = "-"

\* PART_NUMBER_REGEX.is_match(t): the expression has no anchors, so a match
\* may start anywhere in t
PART_NUMBER_REGEX(t) == \E i \in 1..Len(t) : PartNumberAt(t, i)

\* the fields of a value that validate() reports
validate_Position(p) ==
    {f \in {"latitude_degrees"} : ~range_f64(p.latitude_degrees, 90)}
        \cup {f \in {"longitude_degrees"} : ~range_f64(p.longitude_degrees, 180)}

validate_ActivityLap(l) ==
    {f \in {"average_heart_rate_bpm", "maximum_heart_rate_bpm"} :
        IsSome(l[f]) /\ Unwrap(l[f]) < 1}
        \cup {f \in {"cadence"} : IsSome(l.cadence) /\ Unwrap(l.cadence) > 254}

validate_TrackPoint(tp) ==
    {f \in {"cadence"} : IsSome(tp.cadence) /\ Unwrap(tp.cadence) > 254}

validate_Plan(p) ==
    {f \in {"name"} : IsSome(p.name) /\ Len(Unwrap(p.name)) \notin 1..15}

validate_Application(a) ==
    {f \in {"lang_id"} : Len(a.lang_id) # 2}
        \cup {f \in {"part_number"} : ~PART_NUMBER_REGEX(a.part_number)}

RangeInit ==
    /\ events = <<>>
    /\ tok = TokInit("range")
    /\ stack = <<>>
    /\ result = [tag |-> "Init", val |-> <<>>, err |-> Ok(0)]
    /\ last = NoStep

RangeNext ==
    \/ read
    \/ read_training_center
    \/ read_activity_list
    \/ read_activity
    \/ read_activity_lap
    \/ read_track
    \/ read_track_point
    \/ read_position
    \/ read_training
    \/ read_plan
    \/ read_application
    \/ opt_read_value_as

RangeSpec == RangeInit /\ [][RangeNext]_vars

\* the last step was a text macro that pulled a text
PulledText == last.fn \in Readers \cup {"opt_read_value_as"} /\ last.e2.k = "Text"

\* the field the text macro of the last step assigns to, its type and whether
\* it is optional
MacroOf(f, name) ==
    IF f.fn = "opt_read_value_as" THEN [attr |-> f.attr, ty |-> f.ty, opt |-> TRUE]
    ELSE [attr |-> Arms(f.fn, name).attr, ty |-> Arms(f.fn, name).ty,
          opt |-> Arms(f.fn, name).opt]

\* the values of the tree that break a constraint, by entity
BrokenLaps(tree) ==
    {<<i, j>> \in (1..4) \X (1..4) :
        /\ IsSome(tree.activity_list)
        /\ i <= Len(Unwrap(tree.activity_list).activities)
        /\ j <= Len(Unwrap(tree.activity_list).activities[i].laps)
        /\ validate_ActivityLap(Unwrap(tree.activity_list).activities[i].laps[j]) # {}}

\* C15: in documents whose texts all convert and all break the constraint of
\* their field, read fails only if the tokenizer has returned an error; and
\* whenever a text macro has pulled a text that converts, read goes on and
\* the field holds exactly the converted value.
C15_ConstraintsNotChecked ==
    /\ result.tag = "Err" => tok.errs > 0
    /\ (PulledText
            /\ TextAs(last.e2.text, MacroOf(Top(last.pre), last.e1.name).ty).ok) =>
            LET m == MacroOf(Top(last.pre), last.e1.name)
                v == TextAs(last.e2.text, m.ty).v
            IN  /\ result = Running
                /\ Len(stack) = Len(last.pre)
                /\ stack[Target(stack)].val[m.attr] = IF m.opt THEN Some(v) ELSE v

\* read has returned a tree with a lap whose cadence is 255 and whose average
\* heart rate is 0, both of which validate() reports
C15_Witness ==
    /\ result.tag = "Ok"
    /\ tok.errs = 0
    /\ \E ij \in BrokenLaps(result.val) :
        LET lap == Unwrap(result.val.activity_list).activities[ij[1]].laps[ij[2]]
        IN  /\ lap.cadence = Some(255)
            /\ lap.average_heart_rate_bpm = Some(0)
            /\ validate_ActivityLap(lap) = {"average_heart_rate_bpm", "cadence"}

(***************************************************************************)
(* C16: Application::validate on its own, applied to an Application whose  *)
(* lang_id and part_number are drawn from the texts below.                 *)
(***************************************************************************)
T_EN == <<"E","N">>
T_XXX == <<"X","X","X","-","X","X","X","X","X","-","X","X">>
T_006 == <<"0","0","6","-","B","1","2","3","4","-","0","Z">>
T_xxx == LowerText(T_XXX)
T_short == <<"X","X","X","-","X","X","X","X","-","X","X">>
T_plain == <<"X","X","X","X","X","X","X","X","X","X","X","X">>

LangIds == {<<>>, <<"E">>, T_EN, <<"e","n">>, <<"1","2">>, <<"E","N","G">>}
\* a part number, or something else, with or without a character before and
\* after it
PartNumbers ==
    {pre \o body \o post :
        pre \in {<<>>, <<"A">>, <<" ">>},
        body \in {<<>>, T_XXX, T_006, T_xxx, T_short, T_plain},
        post \in {<<>>, <<"A">>, <<"-">>}}

ValidateInit ==
    /\ events = <<>>
    /\ tok \in {[app |-> [Application_default EXCEPT !.lang_id = l, !.part_number = p]] :
                    l \in LangIds, p \in PartNumbers}
    /\ stack = <<>>
    /\ result = [tag |-> "Init", val |-> <<>>, err |-> Ok(0)]
    /\ last = NoStep

\* application.validate(): the result is the set of fields with a violation
validate ==
    /\ result.tag = "Init"
    /\ result' = Succeeded(validate_Application(tok.app))
    /\ last' = [NoStep EXCEPT !.fn = "validate"]
    /\ UNCHANGED <<events, tok, stack>>

ValidateNext == validate

ValidateSpec == ValidateInit /\ [][ValidateNext]_vars

\* the text is XXX-XXXXX-XX and nothing else
ExactPartNumber(t) == Len(t) = 12 /\ PartNumberAt(t, 1)

\* C16: validate reports lang_id exactly when lang_id is not 2 characters
\* long, and part_number exactly when part_number is not of the format
\* XXX-XXXXX-XX (upper-case letters or digits) with nothing before or after.
C16_ApplicationValidate ==
    result.tag = "Ok" =>
        /\ ("lang_id" \in result.val) <=> (Len(tok.app.lang_id) # 2)
        /\ ("part_number" \in result.val) <=> ~ExactPartNumber(tok.app.part_number)

(***************************************************************************)
(* C17: documents of timestamps, in Activity/Id, Trackpoint/Time and the   *)
(* StartTime attribute of a Lap.                                           *)
(***************************************************************************)
DateInit ==
    /\ events = <<>>
    /\ tok = TokInit("dates")
    /\ stack = <<>>
    /\ result = [tag |-> "Init", val |-> <<>>, err |-> Ok(0)]
    /\ last = NoStep

DateNext ==
    \/ read
    \/ read_training_center
    \/ read_activity_list
    \/ read_activity
    \/ read_activity_lap
    \/ read_track
    \/ read_track_point

DateSpec == DateInit /\ [][DateNext]_vars

\* what RFC 3339 says of each timestamp of the documents: the local date and
\* time and the offset it denotes, or nothing when it is not well formed
Rfc3339(t) ==
    CASE t = T_date -> Some([y |-> 2020, mo |-> 12, d |-> 28, h |-> 13, mi |-> 36, s |-> 16,
                             ns |-> 453000000, off |-> 0])
      [] t = T_east -> Some([y |-> 2020, mo |-> 12, d |-> 28, h |-> 16, mi |-> 36, s |-> 16,
                             ns |-> 0, off |-> 3 * 3600])
      [] t = T_west -> Some([y |-> 2019, mo |-> 2, d |-> 28, h |-> 23, mi |-> 59, s |-> 59,
                             ns |-> 0, off |-> 0 - (5 * 3600 + 30 * 60)])
      [] OTHER -> None

\* the outcome of a step that has parsed the timestamp t and put it in the
\* field attr of the innermost reader
DateOutcome(t, attr) ==
    IF IsSome(Rfc3339(t))
    THEN /\ result = Running
         /\ stack[Target(stack)].val[attr] = Unwrap(Rfc3339(t))
    ELSE result = Failed(Err("ParseDateError"))

\* the last step has read a Lap start tag with a StartTime attribute
PulledStartTime ==
    /\ last.fn = "read_activity"
    /\ last.e1.k = "Start"
    /\ last.e1.name = "Lap"
    /\ AttrIndex(last.e1.attrs, "StartTime") # 0

\* C17: when a text macro has pulled the text of an Id or a Time, or a Lap
\* start tag with a StartTime attribute has been read: a timestamp that is
\* well formed has put the date, the time and the offset it denotes in the
\* field and read goes on; a timestamp that is not well formed (month 13, no
\* timezone, 30 February) has made read fail with ParseDateError.
C17_TimestampsRfc3339 ==
    /\ (PulledText /\ MacroOf(Top(last.pre), last.e1.name).ty = "date") =>
            DateOutcome(last.e2.text, MacroOf(Top(last.pre), last.e1.name).attr)
    /\ PulledStartTime =>
            /\ DateOutcome(last.e1.attrs[AttrIndex(last.e1.attrs, "StartTime")][2], "start_time")
            /\ result = Running => Top(stack).fn = "read_activity_lap"

\* read has returned a lap that started five and a half hours west of UTC,
\* with a track point taken three hours east of it, both as written
C17_Witness ==
    /\ result.tag = "Ok"
    /\ IsSome(result.val.activity_list)
    /\ \E i \in 1..Len(Unwrap(result.val.activity_list).activities) :
        LET a == Unwrap(result.val.activity_list).activities[i]
        IN  /\ a.laps # <<>>
            /\ a.laps[1].start_time = Unwrap(Rfc3339(T_west))
            /\ a.laps[1].track_points # <<>>
            /\ a.laps[1].track_points[1].time = Unwrap(Rfc3339(T_east))

(***************************************************************************)
(* C18: two threads, each calling read on an input of its own and then     *)
(* validate on the Application it got as author.  In this part every       *)
(* variable holds one value per thread: events[t], tok[t], stack[t] and    *)
(* result[t] are owned by thread t (read takes its input by &mut, and      *)
(* read.rs has no static).  last holds what the process shares, the cell   *)
(* of lazy_static's PART_NUMBER_REGEX, and where each thread is:           *)
(*   state  "new" | "running" | "done"    the Once of the cell             *)
(*   inits  how many times Regex::new has run                              *)
(*   pc[t]  "start" | "reading" | "returned" | "init" | "validated"        *)
(*   seen[t] the initialisation whose pattern thread t has used (0: none)  *)
(***************************************************************************)
Threads == {1, 2}

ConcInit ==
    /\ events = [t \in Threads |-> <<>>]
    /\ tok = [t \in Threads |-> TokInit("conc")]
    /\ stack = [t \in Threads |-> <<>>]
    /\ result = [t \in Threads |-> [tag |-> "Init", val |-> <<>>, err |-> Ok(0)]]
    /\ last = [state |-> "new", inits |-> 0,
               pc |-> [t \in Threads |-> "start"], seen |-> [t \in Threads |-> 0]]

\* the outcomes of one turn of the innermost reader of a thread whose events
\* so far are ev, whose tokenizer is tk and whose readers are stk
Turns(ev, tk, stk) ==
    UNION { { [events |-> ev \o Recorded(tk, IF e2 = NoEvent THEN <<e1>> ELSE <<e1, e2>>),
               tok |-> IF e2 = NoEvent THEN TokAfter(tk, e1, Len(ev) + 1)
                       ELSE TokAfter(TokAfter(tk, e1, Len(ev) + 1), e2, Len(ev) + 2),
               out |-> ReaderStep(stk, Len(ev) + 1, e1, e2)] :
              e2 \in (IF PullsText(Top(stk).fn, e1)
                      THEN TokNext(TokAfter(tk, e1, Len(ev) + 1)) ELSE {NoEvent}) } :
            e1 \in TokNext(tk) }

\* a cell without a Once: a caller that finds it new leaves no mark
call_once_unmarked(cell) == cell

\* Once::call_once as lazy_static uses it: the first caller finds the cell new
\* and marks it running before it runs the initialiser
call_once(cell) == IF cell.state = "new" THEN [cell EXCEPT !.state = "running"] ELSE cell

\* thread t calls read
thread_read ==
    \E t \in Threads :
        /\ last.pc[t] = "start"
        /\ stack' = [stack EXCEPT ![t] =
                << Frame("read_training_center", "", TrainingCenterDatabase_new, "", "", "", 0) >>]
        /\ result' = [result EXCEPT ![t] = Running]
        /\ last' = [last EXCEPT !.pc[t] = "reading"]
        /\ UNCHANGED <<events, tok>>

\* one turn of the innermost reader of thread t
thread_turn ==
    \E t \in Threads :
        /\ last.pc[t] = "reading"
        /\ \E n \in Turns(events[t], tok[t], stack[t]) :
            /\ events' = [events EXCEPT ![t] = n.events]
            /\ tok' = [tok EXCEPT ![t] = n.tok]
            /\ stack' = [stack EXCEPT ![t] = n.out.stack]
            /\ result' = [result EXCEPT ![t] = n.out.result]
            /\ last' = [last EXCEPT !.pc[t] =
                            IF n.out.result = Running THEN "reading" ELSE "returned"]

\* thread t has an Application as author
HasApplication(t) ==
    /\ result[t].tag = "Ok"
    /\ IsSome(result[t].val.author)
    /\ Unwrap(result[t].val.author).variant = "Application"

\* thread t calls validate on its author, which dereferences the pattern: a
\* cell that is new is initialised by this thread, a cell that is running
\* makes it wait, a cell that is done is used
thread_deref ==
    \E t \in Threads :
        /\ last.pc[t] = "returned"
        /\ HasApplication(t)
        /\ last.state # "running"
        /\ last' = IF last.state = "new"
                   THEN [call_once(last) EXCEPT !.pc[t] = "init"]
                   ELSE [last EXCEPT !.pc[t] = "validated", !.seen[t] = last.inits]
        /\ UNCHANGED <<events, tok, stack, result>>

\* thread t runs the initialiser, Regex::new(..).unwrap(), and uses the pattern
thread_init ==
    \E t \in Threads :
        /\ last.pc[t] = "init"
        /\ last' = [last EXCEPT !.state = "done", !.inits = @ + 1,
                                !.pc[t] = "validated", !.seen[t] = last.inits + 1]
        /\ UNCHANGED <<events, tok, stack, result>>

ConcNext ==
    \/ thread_read
    \/ thread_turn
    \/ thread_deref
    \/ thread_init

ConcSpec == ConcInit /\ [][ConcNext]_vars

RECURSIVE Replay(_, _, _)
\* read run alone on the events evs, from position i on with the readers stk
ReplayOn(out, evs, i) ==
    IF out.result # Running THEN out.result ELSE Replay(out.stack, evs, i)
Replay(stk, evs, i) ==
    IF i > Len(evs) THEN Running
    ELSE IF PullsText(Top(stk).fn, evs[i])
    THEN ReplayOn(ReaderStep(stk, i, evs[i], evs[i + 1]), evs, i + 2)
    ELSE ReplayOn(ReaderStep(stk, i, evs[i], NoEvent), evs, i + 1)

Alone(evs) ==
    Replay(<< Frame("read_training_center", "", TrainingCenterDatabase_new, "", "", "", 0) >>,
           evs, 1)

TopInit ==
    /\ events = <<>>
    /\ tok = TokInit("top")
    /\ stack = <<>>
    /\ result = [tag |-> "Init", val |-> <<>>, err |-> Ok(0)]
    /\ last = NoStep

TopNext ==
    \/ read
    \/ read_training_center
    \/ read_activity_list
    \/ read_activity
    \/ read_application
    \/ read_device

TopSpec == TopInit /\ [][TopNext]_vars

\* the element has an Author whose xsi:type is Application_t or Device_t
HasKnownSource(node, name) ==
    /\ Kid(node, name) # None
    /\ read_type(Unwrap(Kid(node, name))).ok
    /\ read_type(Unwrap(Kid(node, name))).v \in {L_Application_t, L_Device_t}

\* C19: the database reader returns Ok at the end tag of the database whatever
\* sections it has read; in the tree read returns, on a stream without
\* tokenizer errors, activity_list is present exactly when the database has
\* an Activities element (with no activities when that element is empty), and
\* author is present exactly when it has an Author of a recognised type.
C19_SectionsOptional ==
    /\ (last.fn = "read_training_center" /\ last.e1 = EvEnd("TrainingCenterDatabase")) =>
            result.tag = "Ok"
    /\ (tok.errs = 0 /\ result.tag = "Ok") =>
            LET tcd == tok.open[1].kids[1]
            IN  /\ IsSome(result.val.activity_list) <=> (Kid(tcd, "Activities") # None)
                /\ (Kid(tcd, "Activities") # None /\ Unwrap(Kid(tcd, "Activities")).kids = <<>>) =>
                        result.val.activity_list = Some(ActivityList_default)
                /\ IsSome(result.val.author) <=> HasKnownSource(tcd, "Author")

\* read has returned the tree of a document that carries an Author only
C19_Witness ==
    /\ result.tag = "Ok"
    /\ tok.errs = 0
    /\ Len(tok.open[1].kids[1].kids) = 1
    /\ IsSome(result.val.author)
    /\ result.val.activity_list = None

(***************************************************************************)
(* C20                                                                     *)
(***************************************************************************)
RECURSIVE Trackpoints(_)
\* the Trackpoint elements of a sequence of Track elements, in document order
Trackpoints(tracks) ==
    IF tracks = <<>> THEN <<>>
    ELSE Kids(Head(tracks), "Trackpoint") \o Trackpoints(Tail(tracks))

\* C20: when the reader of a Lap returns at the end of its element, on a
\* stream without tokenizer errors, track_points holds one point per
\* Trackpoint element of the Track children of the Lap, whatever their number.
C20_AllTracksKept ==
    (tok.errs = 0 /\ ReturnedFrom({"read_activity_lap"})
        /\ IsClosed(tok, Unwrap(last.ret).lo)) =>
        Len(Unwrap(last.ret).val.track_points) =
            Len(Trackpoints(Kids(ElementAt(tok, Unwrap(last.ret).lo), "Track")))

(***************************************************************************)
(* C21                                                                     *)
(***************************************************************************)
\* the element whose end tag the tokenizer has returned last
LastClosed(tk) == Top(tk.open).kids[Len(Top(tk.open).kids)]

\* C21: on a stream without tokenizer errors, the End event at which the
\* reader of an element returns is the one that closes the element it was
\* called on, not the End of a descendant or of a later element of the name.
C21_ReturnsAtOwnEnd ==
    (tok.errs = 0 /\ ReturnedFrom(Readers \ {"read_training_center"})) =>
        /\ last.e1.k = "End"
        /\ Top(tok.open).kids # <<>>
        /\ LastClosed(tok).at = Unwrap(last.ret).lo

(***************************************************************************)
(* C22                                                                     *)
(***************************************************************************)
\* the recognised elements of the document so far, closed or still open
KnownElements(tk) ==
    RecognisedElements(tk)
        \cup {tk.open[i] : i \in {k \in 2..Len(tk.open) :
                                    \A j \in 1..(k - 1) : tk.open[j].ctx # "Opaque"}}

\* an element that makes a reader fail: a leaf or an attribute whose text does
\* not convert, or an Author or Creator without xsi:type
FailsRead(n) ==
    \/ FailsConversion(n)
    \/ n.ctx = "Opaque" /\ AttrIndex(n.attrs, "xsi:type") = 0

\* the position in the stream of the event that carries the failure: the text
\* of a leaf, the start tag of an element with attributes
FailureAt(n) == IF n.ctx = "Leaf" THEN n.at + 1 ELSE n.at

\* C22: when read has failed, the last event pulled is the earliest failure
\* of the stream: no tokenizer error and no recognised leaf, attribute or
\* untyped Author or Creator that fails stands before it.
C22_FirstErrorReturned ==
    result.tag = "Err" =>
        /\ \A i \in 1..(Len(events) - 1) : events[i].k # "Err"
        /\ \A n \in KnownElements(tok) : FailsRead(n) => FailureAt(n) >= Len(events)

(***************************************************************************)
(* C23: documents of the integer leaves                                    *)
(***************************************************************************)
IntInit ==
    /\ events = <<>>
    /\ tok = TokInit("ints")
    /\ stack = <<>>
    /\ result = [tag |-> "Init", val |-> <<>>, err |-> Ok(0)]
    /\ last = NoStep

IntNext ==
    \/ read
    \/ read_training_center
    \/ read_activity_list
    \/ read_activity
    \/ read_activity_lap
    \/ read_track
    \/ read_track_point
    \/ read_device
    \/ read_version
    \/ opt_read_value_as

IntSpec == IntInit /\ [][IntNext]_vars

\* the width in bits the statement gives the integer leaf of a name
WidthOf(name) ==
    CASE name \in {"Value", "Cadence"} -> 8
      [] name \in {"Calories", "ProductID", "VersionMajor", "VersionMinor",
                   "BuildMajor", "BuildMinor"} -> 16
      [] name = "UnitId" -> 32
      [] OTHER -> 0

\* the largest number of a width, in decimal
MaxOf(bits) == CASE bits = 8 -> T_255 [] bits = 16 -> T_65535 [] bits = 32 -> T_u32max

\* the digits of a text that denotes a number without a sign or with a plus
DigitsOf(t) == IF t # <<>> /\ t[1] = "+" THEN Tail(t) ELSE t
IsNumeral(t) == DigitsOf(t) # <<>> /\ AllDigits(DigitsOf(t))

RECURSIVE Canonical(_)
\* a numeral without its leading zeros
Canonical(ds) == IF Len(ds) > 1 /\ ds[1] = "0" THEN Canonical(Tail(ds)) ELSE ds

\* a <= b for canonical numerals, by length and then digit by digit
NumeralLe(a, b) ==
    \/ Len(a) < Len(b)
    \/ /\ Len(a) = Len(b)
       /\ \/ a = b
          \/ \E i \in 1..Len(a) :
                /\ DigitVal(a[i]) < DigitVal(b[i])
                /\ \A j \in 1..(i - 1) : a[j] = b[j]

RECURSIVE DecimalOf(_, _)
\* the canonical numeral of the number hi * 2^16 + lo, by long division
DecimalOf(hi, lo) ==
    LET t == (hi % 10) * Limb + lo
    IN  IF hi = 0 /\ lo < 10 THEN << DigitChars[lo + 1] >>
        ELSE Append(DecimalOf(hi \div 10, t \div 10), DigitChars[(t % 10) + 1])

\* the numeral of a stored integer: a number, or two limbs for 32 bits
NumeralOf(v, bits) == IF bits > 16 THEN DecimalOf(v[1], v[2]) ELSE DecimalOf(0, v)

\* the last step was a text macro that pulled the text of an integer leaf
PulledInt == PulledText /\ WidthOf(last.e1.name) > 0

\* the field the last step's text macro has written, as a numeral
StoredNumeral ==
    LET m == MacroOf(Top(last.pre), last.e1.name)
        v == stack[Target(stack)].val[m.attr]
    IN  NumeralOf(IF m.opt THEN Unwrap(v) ELSE v, WidthOf(last.e1.name))

\* C23: when a reader has pulled the text of an integer leaf, a numeral within
\* the width of the leaf (8 bits for Value and Cadence, 16 for Calories,
\* ProductID and the version numbers, 32 for UnitId) is stored as exactly
\* that number and reading goes on; any other text, a number beyond the
\* width, a negative one or no number at all, fails read with ParseIntError.
C23_IntegersRangeChecked ==
    PulledInt =>
        IF /\ IsNumeral(last.e2.text)
           /\ NumeralLe(Canonical(DigitsOf(last.e2.text)), MaxOf(WidthOf(last.e1.name)))
        THEN /\ result.tag = "Running"
             /\ Len(stack) = Len(last.pre)
             /\ StoredNumeral = Canonical(DigitsOf(last.e2.text))
        ELSE /\ result.tag = "Err"
             /\ result.err.err = "ParseIntError"

\* a UnitId of 2^32 - 1 is stored and a Value of 256 fails: both ends of a width
C23_Witness ==
    /\ PulledInt
    /\ \/ last.e1.name = "UnitId" /\ last.e2.text = T_u32max /\ result.tag = "Running"
       \/ last.e1.name = "Value" /\ last.e2.text = T_256 /\ result.tag = "Err"

(***************************************************************************)
(* C24: documents of training plans                                        *)
(***************************************************************************)
PlanInit ==
    /\ events = <<>>
    /\ tok = TokInit("plan")
    /\ stack = <<>>
    /\ result = [tag |-> "Init", val |-> <<>>, err |-> Ok(0)]
    /\ last = NoStep

PlanNext ==
    \/ read
    \/ read_training_center
    \/ read_activity_list
    \/ read_activity
    \/ read_training
    \/ read_plan

PlanSpec == PlanInit /\ [][PlanNext]_vars

\* an attribute of a Plan start tag whose value is not a literal of its type
BadPlanAttr(a) ==
    \/ a[1] = "Type" /\ a[2] \notin {L_Workout, L_Course}
    \/ a[1] = "IntervalWorkout" /\ a[2] \notin {L_true, L_false}

\* the plan the statement gives a start tag without a bad attribute and
\* without a Name child
PlanOf(attrs) ==
    LET t == AttrIndex(attrs, "Type")
        b == AttrIndex(attrs, "IntervalWorkout")
    IN  [name |-> None,
         training_type |-> IF t = 0 \/ attrs[t][2] = L_Workout THEN "Workout" ELSE "Course",
         interval_workout |-> b # 0 /\ attrs[b][2] = L_true]

\* the last step of the Training reader has pulled a Plan start tag
PulledPlan == last.fn = "read_training" /\ last.e1.k = "Start" /\ last.e1.name = "Plan"

\* C24: a Plan start tag whose attributes convert starts the Plan reader on a
\* plan with the Type and the IntervalWorkout of the tag (Workout and false
\* for a missing one) and no name; a Type outside {Workout, Course} fails
\* read with UnknownEnumValue of TrainingType and the text, an
\* IntervalWorkout that is not true or false with ParseBoolError.  The text
\* of a Name child becomes the name.  The plan the reader returns has the
\* attributes of its element, no name when the element has no Name child,
\* and is the plan of the training.
C24_PlanAttributes ==
    /\ PulledPlan =>
        \E bad \in {{i \in 1..Len(last.e1.attrs) : BadPlanAttr(last.e1.attrs[i])}} :
            IF bad = {}
            THEN /\ result = Running
                 /\ Pop(stack) = last.pre
                 /\ Top(stack).fn = "read_plan"
                 /\ Top(stack).val = PlanOf(last.e1.attrs)
            ELSE \E i \in bad :
                    /\ \A j \in bad : i <= j
                    /\ result.tag = "Err"
                    /\ IF last.e1.attrs[i][1] = "Type"
                       THEN result.err = EnumErr("TrainingType", last.e1.attrs[i][2])
                       ELSE result.err.err = "ParseBoolError"
    /\ (PulledText /\ last.fn = "read_plan" /\ last.e1.name = "Name") =>
            /\ result = Running
            /\ stack = SetTopVal(last.pre, [Top(last.pre).val EXCEPT !.name = Some(last.e2.text)])
    /\ ReturnedFrom({"read_plan"}) =>
        \E r \in {Unwrap(last.ret)} : \E el \in {ElementAt(tok, Unwrap(last.ret).lo)} :
            /\ r.val.training_type = PlanOf(el.attrs).training_type
            /\ r.val.interval_workout = PlanOf(el.attrs).interval_workout
            /\ Kids(el, "Name") = <<>> => r.val.name = None
            /\ Top(stack).val.plan = Some(r.val)

\* the reader of a Plan of Type Course with IntervalWorkout true and a Name
\* has returned
C24_Witness ==
    /\ ReturnedFrom({"read_plan"})
    /\ Unwrap(last.ret).val =
            [name |-> Some(T_Polar), training_type |-> "Course", interval_workout |-> TRUE]

(***************************************************************************)
(* C25                                                                     *)
(***************************************************************************)
\* C25: in the tree of a successful read no training has both its quick
\* workout results and its plan.
C25_ResultsXorPlan ==
    (result.tag = "Ok" /\ IsSome(result.val.activity_list)) =>
        \A i \in 1..Len(Unwrap(result.val.activity_list).activities) :
            \E a \in {Unwrap(result.val.activity_list).activities[i]} :
                IsSome(a.training) =>
                    ~(/\ IsSome(Unwrap(a.training).quick_workout_results)
                      /\ IsSome(Unwrap(a.training).plan))

(***************************************************************************)
(* C26                                                                     *)
(***************************************************************************)
\* C26: on a stream without tokenizer errors, the activity a reader returns
\* at the end of an Activity element whose Creator has an unrecognised
\* xsi:type, and which has no other unrecognised child, has the notes of the
\* Notes child of the Activity itself and one lap per Lap child of its own:
\* what stands inside the Creator has no part in it.
C26_UnknownCreatorContentIgnored ==
    (tok.errs = 0 /\ ReturnedFrom({"read_activity"})
        /\ IsClosed(tok, Unwrap(last.ret).lo)
        /\ HasUnknownSource(ElementAt(tok, Unwrap(last.ret).lo), "Creator")
        /\ Kids(ElementAt(tok, Unwrap(last.ret).lo), "Extensions") = <<>>) =>
        \E r \in {Unwrap(last.ret)} : \E node \in {ElementAt(tok, Unwrap(last.ret).lo)} :
            /\ r.val.notes = OptScalar(node, "Notes", "String")
            /\ Len(r.val.laps) = Len(Kids(node, "Lap"))

(***************************************************************************)
(* C27: documents of a lap and its track                                   *)
(***************************************************************************)
TrackInit ==
    /\ events = <<>>
    /\ tok = TokInit("track")
    /\ stack = <<>>
    /\ result = [tag |-> "Init", val |-> <<>>, err |-> Ok(0)]
    /\ last = NoStep

TrackNext ==
    \/ read
    \/ read_training_center
    \/ read_activity_list
    \/ read_activity
    \/ read_activity_lap
    \/ read_track
    \/ read_track_point
    \/ opt_read_value_as

TrackSpec == TrackInit /\ [][TrackNext]_vars

\* every heart-rate wrapper inside the element has a Value with a text
CompleteWrappers(node) ==
    \A n \in Descendants(node) :
        n.ctx = "Wrapper" => (Kid(n, "Value") # None /\ IsSome(Unwrap(Kid(n, "Value")).text))

\* the track point holds the DistanceMeters and the Cadence of its element
PointOf(tp, node) ==
    /\ tp.distance_meters = OptScalar(node, "DistanceMeters", "f64")
    /\ tp.cadence = OptScalar(node, "Cadence", "u8")

\* C27: on a stream without tokenizer errors, the lap a reader returns at the
\* end of a Lap element whose heart-rate wrappers are complete has the
\* distance_meters, the cadence and the notes of the Lap's own children (the
\* default or absent without the child), whether its Track stands before or
\* after them; and when the Lap has one Track, each track point has the
\* DistanceMeters and the Cadence of its own Trackpoint element.
C27_LapFieldsFromOwnChildren ==
    (tok.errs = 0 /\ ReturnedFrom({"read_activity_lap"})
        /\ IsClosed(tok, Unwrap(last.ret).lo)
        /\ CompleteWrappers(ElementAt(tok, Unwrap(last.ret).lo))) =>
        \E r \in {Unwrap(last.ret)} : \E node \in {ElementAt(tok, Unwrap(last.ret).lo)} :
            /\ r.val.distance_meters = Scalar(node, "DistanceMeters", "f64", F64Zero)
            /\ r.val.cadence = OptScalar(node, "Cadence", "u8")
            /\ r.val.notes = OptScalar(node, "Notes", "String")
            /\ Len(Kids(node, "Track")) = 1 =>
                \E pts \in {Kids(Kids(node, "Track")[1], "Trackpoint")} :
                    /\ Len(r.val.track_points) = Len(pts)
                    /\ \A i \in 1..Len(pts) : PointOf(r.val.track_points[i], pts[i])

\* a lap with a Cadence of its own has been returned whose track point has
\* another Cadence: each holds its own
C27_Witness ==
    /\ tok.errs = 0
    /\ ReturnedFrom({"read_activity_lap"})
    /\ Len(Unwrap(last.ret).val.track_points) = 1
    /\ IsSome(Unwrap(last.ret).val.cadence)
    /\ IsSome(Unwrap(last.ret).val.track_points[1].cadence)
    /\ Unwrap(last.ret).val.cadence # Unwrap(last.ret).val.track_points[1].cadence

(***************************************************************************)
(* C28                                                                     *)
(***************************************************************************)
\* every heart-rate wrapper among the children has a Value child
WrappersHaveValue(node) ==
    \A i \in 1..Len(node.kids) :
        node.kids[i].ctx = "Wrapper" => Kid(node.kids[i], "Value") # None

\* C28: a text macro that pulls the End of its leaf instead of a text does
\* not fail the read and leaves every reader and every field as it was; and,
\* on a stream without tokenizer errors, the lap a reader returns for a Lap
\* whose wrappers all have a Value, with or without text, has the cadence
\* and the intensity of the Lap's own children and, for each wrapper, the
\* number of its Value or nothing when the Value has no text.
C28_EmptyLeafSkipped ==
    /\ (last.e1.k = "Start" /\ last.e2.k = "End") =>
            (result = Running /\ stack = last.pre)
    /\ (tok.errs = 0 /\ ReturnedFrom({"read_activity_lap"})
            /\ IsClosed(tok, Unwrap(last.ret).lo)
            /\ WrappersHaveValue(ElementAt(tok, Unwrap(last.ret).lo))) =>
        \E r \in {Unwrap(last.ret)} : \E node \in {ElementAt(tok, Unwrap(last.ret).lo)} :
            /\ r.val.cadence = OptScalar(node, "Cadence", "u8")
            /\ r.val.intensity = Scalar(node, "Intensity", "Intensity", "Active")
            /\ \A w \in Wrappers(r.fn) :
                    r.val[Arms(r.fn, w).attr] =
                        IF Kid(node, w) = None THEN None ELSE ValueOf(Unwrap(Kid(node, w)))

(***************************************************************************)
(* C29                                                                     *)
(***************************************************************************)
\* the last step of the Activity reader has pulled a Lap start tag
PulledLap == last.fn = "read_activity" /\ last.e1.k = "Start" /\ last.e1.name = "Lap"

\* the start time the statement gives a Lap start tag: what RFC 3339 says of
\* its StartTime attribute, the default without the attribute
StartTimeGiven(attrs) ==
    IF AttrIndex(attrs, "StartTime") = 0 THEN Some(DateTime_default)
    ELSE Rfc3339(attrs[AttrIndex(attrs, "StartTime")][2])

\* C29: the step that pulls a Lap start tag pulls nothing else: no child of
\* the Lap has been looked at when the attributes have been processed.  A
\* tag without StartTime, whatever other attributes it has, starts the Lap
\* reader on the default lap; a tag with a well-formed StartTime starts it
\* on the default lap with that start time; a StartTime that is not well
\* formed fails the read in this step.  The lap the reader returns has the
\* start time its tag gave it.
C29_StartTimeFromAttribute ==
    /\ PulledLap =>
        /\ last.e2 = NoEvent
        /\ Top(tok.open).name = "Lap" /\ Top(tok.open).at = Len(events)
        /\ Top(tok.open).empty
        /\ IF IsSome(StartTimeGiven(last.e1.attrs))
           THEN /\ result = Running
                /\ Pop(stack) = last.pre
                /\ Top(stack).fn = "read_activity_lap"
                /\ Top(stack).val = [ActivityLap_default EXCEPT
                                        !.start_time = Unwrap(StartTimeGiven(last.e1.attrs))]
           ELSE result = Failed(Err("ParseDateError"))
    /\ (ReturnedFrom({"read_activity_lap"}) /\ IsClosed(tok, Unwrap(last.ret).lo)) =>
            Some(Unwrap(last.ret).val.start_time) =
                StartTimeGiven(ElementAt(tok, Unwrap(last.ret).lo).attrs)

\* the reader of a Lap whose only attribute is not StartTime, and is no
\* timestamp, has returned a lap with the default start time
C29_Witness ==
    /\ ReturnedFrom({"read_activity_lap"})
    /\ IsClosed(tok, Unwrap(last.ret).lo)
    /\ ElementAt(tok, Unwrap(last.ret).lo).attrs = << <<"Id", T_notz>> >>
    /\ Unwrap(last.ret).val.start_time = DateTime_default

====
